---------------------------- MODULE Spec2Model ----------------------------
(***************************************************************************)
(* ESP8266 AT-command driver (Core/Src/esp8266.c): the transport (DMA      *)
(* transmit slot, idle-line receive event), the command engine             *)
(* (ESP8266_SendCommand / ESP8266_WaitForResponse) and the operations      *)
(* layered on it.                                                          *)
(*                                                                         *)
(* The application is one thread of control; its position is `stack`, a    *)
(* call stack of frames (top first), each frame holding the C function's   *)
(* arguments, its locals and the label `pc` it is at.  The interrupt       *)
(* handlers (HAL_UARTEx_RxEventCallback, HAL_UART_TxCpltCallback) are      *)
(* actions that interleave with the thread's steps.  A step of the thread  *)
(* runs from one blocking point (a HAL_Delay, a transmission) to the next. *)
(*                                                                         *)
(* Strings are TLA+ strings; strstr is Contains.  A timed loop keeps in    *)
(* its frame `t`, the value of HAL_GetTick() - start at its last read.     *)
(***************************************************************************)
EXTENDS Naturals, Sequences, FiniteSets, TLC

VARIABLES
    esp8266,    \* ESP8266_Handle_t esp8266: the driver's fields
    huart,      \* the UART's transmit state as the HAL keeps it (gState)
    stack,      \* the application thread's call stack, top first
    ret,        \* the value returned by the call that returned last
    mqtt,       \* MQTT_Handle_t mqtt: the MQTT client's fields (esp8266_mqtt.c)
    g           \* history variables: what the claims observe, never read by the code

vars == <<esp8266, huart, stack, ret, mqtt, g>>

---------------------------------------------------------------------------
(* Bounds of the model *)

\* Milliseconds that pass in one HAL_Delay of a polling loop (the granularity of time).
TickStep == 1000
\* Callback invocations are counted up to this number.
MaxCalls == 2
\* Publications are made while publishCount is below this number.
MaxPublish == 2
\* Messages counted by receiveCount in a run
MaxReceive == 2
\* MQTT_Reconnect is called while reconnectCount is below this number.
MaxReconnect == 1
\* Subscriptions of the session that is disconnected, cleaned or reconnected
SessionTopics == 2

---------------------------------------------------------------------------
(* Program constants *)

ESP8266_DEFAULT_TIMEOUT == 3000
ESP8266_CONNECT_TIMEOUT == 15000
ESP8266_RX_BUF_SIZE == 2048
TX_BUSY_WAIT == 1000
TX_DONE_WAIT == 5000
POLL_DELAY == 10
TX_POLL_DELAY == 1
ESP8266_MAX_CONNECTIONS == 5
MQTT_LINK_ID == 0
MQTT_CONNECT_TIMEOUT == 10000
MQTT_PUBLISH_TIMEOUT == 5000
MQTT_SUBSCRIBE_TIMEOUT == 5000
MQTT_DEFAULT_TIMEOUT == 3000
MQTT_MAX_SUBSCRIPTIONS == 8
MQTT_MESSAGE_MAX_LEN == 1024
MQTT_TOPIC_MAX_LEN == 128
MQTT_DEFAULT_PORT == 1883
MQTT_SCHEME_TCP == 1

NULL == "<NULL>"

ESP8266_OK == "ESP8266_OK"
ESP8266_ERROR == "ESP8266_ERROR"
ESP8266_TIMEOUT == "ESP8266_TIMEOUT"
ESP8266_BUSY == "ESP8266_BUSY"
ESP8266_CONNECT_FAIL == "ESP8266_CONNECT_FAIL"
ESP8266_SEND_FAIL == "ESP8266_SEND_FAIL"
ESP8266_INVALID_PARAM == "ESP8266_INVALID_PARAM"
ESP8266_ALREADY_CONNECTED == "ESP8266_ALREADY_CONNECTED"

\* MQTT_Status_t
MQTT_OK == "MQTT_OK"
MQTT_ERROR == "MQTT_ERROR"
MQTT_TIMEOUT == "MQTT_TIMEOUT"
MQTT_NOT_INITIALIZED == "MQTT_NOT_INITIALIZED"
MQTT_NOT_CONNECTED == "MQTT_NOT_CONNECTED"
MQTT_CONNECT_FAIL == "MQTT_CONNECT_FAIL"
MQTT_SUBSCRIBE_FAIL == "MQTT_SUBSCRIBE_FAIL"
MQTT_PUBLISH_FAIL == "MQTT_PUBLISH_FAIL"
MQTT_INVALID_PARAM == "MQTT_INVALID_PARAM"
MQTT_BUFFER_FULL == "MQTT_BUFFER_FULL"

\* MQTT_State_t
MQTT_STATE_NOT_INIT == "MQTT_STATE_NOT_INIT"
MQTT_STATE_USER_SET == "MQTT_STATE_USER_SET"
MQTT_STATE_CONN_SET == "MQTT_STATE_CONN_SET"
MQTT_STATE_DISCONNECTED == "MQTT_STATE_DISCONNECTED"
MQTT_STATE_CONNECTED == "MQTT_STATE_CONNECTED"
MQTT_STATE_CONN_NO_SUB == "MQTT_STATE_CONN_NO_SUB"
MQTT_STATE_CONN_WITH_SUB == "MQTT_STATE_CONN_WITH_SUB"
\* The enumerators in the order of their values, 0 first
MQTT_States ==
    <<MQTT_STATE_NOT_INIT, MQTT_STATE_USER_SET, MQTT_STATE_CONN_SET, MQTT_STATE_DISCONNECTED,
      MQTT_STATE_CONNECTED, MQTT_STATE_CONN_NO_SUB, MQTT_STATE_CONN_WITH_SUB>>

---------------------------------------------------------------------------
(* Strings *)

\* strstr(buf, tok) != NULL
Contains(buf, tok) ==
    \E i \in 1..(Len(buf) + 1 - Len(tok)) : SubSeq(buf, i, i + Len(tok) - 1) = tok

\* ESP8266_ContainsString
ESP8266_ContainsString(str) == Contains(esp8266.rxBuffer, str)

\* strlen of a non-NULL C string
strlen(s) == Len(s)

---------------------------------------------------------------------------
(* The co-processor's lines the receive event may deliver, one chunk per event *)

RespOk == "\r\nOK\r\n"
RespError == "\r\nERROR\r\n"
RespBusy == "busy p...\r\n"
RespErrorOk == "ERROR\r\nOK\r\n"
RespWifiConnectedOk == "WIFI CONNECTED\r\nOK\r\n"
RespFail == "+CWJAP:1\r\nFAIL\r\n"
RespPrompt == "\r\n> "
RespSendOk == "\r\nSEND OK\r\n"
RespStaIp == "+CIFSR:STAIP,\"10.0.0.7\"\r\nOK\r\n"
RespIpd == "+IPD,5:hello"
RespWifiDisconnect == "WIFI DISCONNECT\r\n"

\* What the co-processor sends in the exchanges of the command engine
EngineResponses == {RespOk, RespError, RespBusy, RespErrorOk, RespPrompt, RespSendOk}
\* What it sends around an association
WifiResponses ==
    {RespOk, RespError, RespWifiConnectedOk, RespFail, RespStaIp, RespIpd,
     RespWifiDisconnect}

NoChunk == ""

\* What the module answers to the mode commands and to a send
ModeResponses == {RespOk, RespError, RespPrompt, RespSendOk}

\* What the module answers to AT+CIPSTART
RespConnectOk == "CONNECT\r\n\r\nOK\r\n"
RespAlreadyConnected == "ALREADY CONNECTED\r\n\r\nERROR\r\n"
RespClosed == "CLOSED\r\n"
ConnResponses == {RespOk, RespError, RespConnectOk, RespAlreadyConnected, RespClosed}

---------------------------------------------------------------------------
(* Time *)

\* HAL_Delay(ms) returns after at least ms milliseconds: the ticks that pass.
HAL_Delay(ms) == IF ms > TickStep THEN ms ELSE TickStep

---------------------------------------------------------------------------
(* The call stack *)

Idle == stack = <<>>
Top == Head(stack)
At(label) == stack # <<>> /\ Top.pc = label

\* The top frame moves to `label`.
Goto(label) == stack' = <<[Top EXCEPT !.pc = label]>> \o Tail(stack)
\* The top frame is replaced by f.
SetTop(f) == stack' = <<f>> \o Tail(stack)
\* The top frame calls `callee` and will resume at `label`.
Call(callee, label) == stack' = <<callee, [Top EXCEPT !.pc = label]>> \o Tail(stack)
\* The top frame returns v.
Return(v) == stack' = Tail(stack) /\ ret' = v

\* The frames of C functions, at their entry
SendDMA_Frame(data, len) == [pc |-> "DMA_entry", data |-> data, len |-> len, t |-> 0]
SendCommand_Frame(cmd, expectedResp, timeout) ==
    [pc |-> "SC_entry", cmd |-> cmd, expectedResp |-> expectedResp,
     timeout |-> timeout, t |-> 0]

\* ESP8266_SendCommandF composes the text in txBuffer and delegates to SendCommand.
SendCommandF_Frame(expectedResp, timeout, text) ==
    SendCommand_Frame(text, expectedResp, timeout)
Send_Frame(linkId, data, len) ==
    [pc |-> "Send_entry", linkId |-> linkId, data |-> data, len |-> len, t |-> 0]
ExitTransparent_Frame == [pc |-> "ET_entry"]
ConnectAP_Frame(ssid, password) ==
    [pc |-> "CAP_entry", ssid |-> ssid, password |-> password, ret |-> ESP8266_OK]
GetIPInfo_Frame(ipInfo) == [pc |-> "IP_entry", ipInfo |-> ipInfo]
Connect_Frame(type, host, port, linkId) ==
    [pc |-> "Conn_entry", type |-> type, host |-> host, port |-> port, linkId |-> linkId]
SetMultiConn_Frame(enable) == [pc |-> "MC_entry", enable |-> enable]
StartServer_Frame(port) == [pc |-> "SS_entry", port |-> port]
StopServer_Frame == [pc |-> "ST_entry"]
EnterTransparent_Frame == [pc |-> "ENT_entry"]
TransparentSend_Frame(data, len) == [pc |-> "TS_entry", data |-> data, len |-> len]
ConnectEx_Frame(linkId, type, host, port) ==
    [pc |-> "ConnEx_entry", linkId |-> linkId, type |-> type, host |-> host, port |-> port]

\* The exchange awaiting its response, if any: the ESP8266_SendCommand frame that has
\* cleared the buffer and whose deadline has not passed.
PendingFrames ==
    {i \in DOMAIN stack :
        \/ stack[i].pc \in {"SC_sent", "SC_delay"}
        \/ stack[i].pc = "SC_poll" /\ stack[i].t < stack[i].timeout}

---------------------------------------------------------------------------
(* History variables *)

GInit ==
    [call |-> [op |-> "none"],
     atReturn |-> FALSE,     \* the state is the one in which the call returned
     answer |-> NoChunk,     \* the chunk with the expected token delivered before the deadline
     markerSeen |-> FALSE,   \* a chunk with the token or an error marker came since the clear
     polled |-> FALSE,       \* WaitForResponse has polled the buffer's present content
     lastChunk |-> NoChunk,  \* the last chunk delivered since the buffer was cleared
     waited |-> FALSE,       \* the call has waited for a response
     dmaCalls |-> 0,         \* ESP8266_SendDMA calls of the call
     txAttempts |-> 0,       \* HAL_UART_Transmit_DMA attempts of the call
     dmaFailed |-> FALSE,    \* a SendDMA of the call failed to transmit
     promptSeen |-> FALSE,   \* Send's AT+CIPSEND exchange found the '>' prompt
     streamed |-> FALSE,     \* Send handed its payload to SendDMA
     payloadStatus |-> NULL, \* what that SendDMA returned
     escapeSent |-> FALSE,   \* the escape sequence was transmitted
     escapeDropped |-> FALSE,\* the escape sequence was refused by the busy UART
     linkIdOut |-> NULL,     \* the caller's *linkId as ESP8266_Connect left it
     joined |-> FALSE,       \* WIFI CONNECTED / OK came to the transmitted, pending AT+CWJAP
     connectedCalls |-> 0,   \* onWifiConnected invocations since ConnectAP was called
     fired |-> {},           \* the callbacks the last ESP8266_ProcessData invoked
     out |-> NULL,           \* what the call wrote through its output pointers
     elapsed |-> 0,          \* the time MQTT_Publish's loop had waited at its last test
     exchange |-> NULL,      \* what the MQTT call's command exchange returned
     callbacks |-> <<>>,     \* the MQTT callbacks the call invoked, in order, with their argument
     cmds |-> <<>>,          \* the commands the call handed to ESP8266_SendCommand, in order
     rxData |-> [ok |-> 0]]  \* the ESP8266_RxData_t its onDataReceived was given

\* A top-level call begins.
GCall(c) ==
    [GInit EXCEPT !.call = c, !.lastChunk = g.lastChunk,
                  !.joined = IF c.op = "ProcessData" THEN g.joined ELSE FALSE,
                  !.connectedCalls = IF c.op = "ConnectAP" THEN 0 ELSE g.connectedCalls]

\* An interrupt while no call is in progress: the last call's history is no longer
\* the state in which it returned, and is forgotten.
GForget(h) ==
    IF stack = <<>>
    THEN [GInit EXCEPT !.lastChunk = h.lastChunk, !.joined = h.joined,
                       !.connectedCalls = h.connectedCalls]
    ELSE h

\* The history after the top frame returns: the outermost return is the call's return.
GReturn(h) == [h EXCEPT !.atReturn = (Len(stack) = 1)]

Count(n) == IF n < MaxCalls THEN n + 1 ELSE n

ErrorMarkers == {"ERROR", "busy", "BUSY"}

---------------------------------------------------------------------------
(* The MQTT client's handle *)

\* A cleared MQTT_Subscription_t
MQTT_NoSubscription == [topic |-> "", qos |-> 0, active |-> 0]

\* static MQTT_Handle_t mqtt = {0}
MQTT_Zero ==
    [initialized |-> 0, connected |-> 0, state |-> MQTT_STATE_NOT_INIT,
     brokerConfig |-> [host |-> "", port |-> 0, reconnect |-> 0],
     subscriptions |-> [i \in 1..MQTT_MAX_SUBSCRIPTIONS |-> MQTT_NoSubscription],
     subscriptionCount |-> 0, publishCount |-> 0,
     receiveCount |-> 0, reconnectCount |-> 0,
     msgPending |-> 0, msgBuffer |-> "",
     userConfig |-> [scheme |-> 0, clientId |-> "", username |-> "", password |-> "",
                     certKeyId |-> 0, caId |-> 0, path |-> ""],
     connConfig |-> [keepAlive |-> 0, disableCleanSession |-> 0, lwtTopic |-> "",
                     lwtMessage |-> "", lwtQos |-> 0, lwtRetain |-> 0],
     onConnected |-> NULL, onDisconnected |-> NULL, onMessageReceived |-> NULL,
     onError |-> NULL, onPublishComplete |-> NULL,
     onSubscribed |-> NULL, onUnsubscribed |-> NULL]

---------------------------------------------------------------------------
(* Initial state: the handle after memset (ESP8266_Init), nothing in flight *)

Init ==
    /\ esp8266 = [txBusy |-> 0, rxBuffer |-> "", rxLength |-> 0, rxComplete |-> 0,
                  wifiConnected |-> 0, multiConnMode |-> 0, transparentMode |-> 0,
                  serverStarted |-> 0, initialized |-> 1,
                  ip |-> "", onDataReceived |-> NULL,
                  onWifiConnected |-> NULL, onWifiDisconnected |-> NULL]
    /\ huart = "READY"
    /\ stack = <<>>
    /\ ret = ESP8266_OK
    /\ mqtt = MQTT_Zero
    /\ g = GInit

---------------------------------------------------------------------------
(* Interrupt handlers *)

\* Lines 89-90: rxBuffer[Size] = 0, then rxLength = Size. With Size equal to the
\* buffer's size the terminator is stored past the end of rxBuffer, which is
\* undefined: in the handle's layout (esp8266.h lines 174-175) the byte after the
\* buffer is the low byte of rxLength, and the store lands there before or after the
\* assignment of rxLength.
RxLengthAfter(Size) ==
    IF Size < ESP8266_RX_BUF_SIZE THEN {Size} ELSE {Size, Size - (Size % 256)}

\* HAL_UARTEx_RxEventCallback(huart, Size) with Size > 0: the chunk is copied out of
\* the DMA target into rxBuffer, terminated, and the receive is re-armed.
HAL_UARTEx_RxEventCallback(chunk) ==
    /\ Len(chunk) > 0
    /\ \E len \in RxLengthAfter(Len(chunk)) :
         esp8266' = [esp8266 EXCEPT !.rxBuffer = chunk, !.rxLength = len,
                                    !.rxComplete = 1]
    /\ g' = GForget([g EXCEPT
               !.atReturn = FALSE,
               !.answer = IF \E i \in PendingFrames :
                                /\ stack[i].expectedResp # NULL
                                /\ Contains(chunk, stack[i].expectedResp)
                          THEN chunk ELSE @,
               !.markerSeen = \/ @
                              \/ \E m \in ErrorMarkers : Contains(chunk, m)
                              \/ \E i \in PendingFrames :
                                    /\ stack[i].expectedResp # NULL
                                    /\ Contains(chunk, stack[i].expectedResp),
               !.polled = FALSE,
               !.lastChunk = chunk,
               !.joined = IF /\ chunk = RespWifiConnectedOk
                             /\ esp8266.onWifiConnected # NULL
                             /\ ~g.dmaFailed
                             /\ \E i \in PendingFrames :
                                    /\ stack[i].pc \in {"SC_poll", "SC_delay"}
                                    /\ Contains(stack[i].cmd, "AT+CWJAP")
                          THEN TRUE
                          ELSE @ /\ ~Contains(chunk, "WIFI CONNECTED")
                                 /\ ~Contains(chunk, "WIFI DISCONNECT")])
    /\ UNCHANGED <<huart, stack, ret>>
    /\ UNCHANGED mqtt

\* The receive events of the two scenarios
RxEvent == \E chunk \in EngineResponses : HAL_UARTEx_RxEventCallback(chunk)
RxEventWifi == \E chunk \in WifiResponses : HAL_UARTEx_RxEventCallback(chunk)
RxEventMode == \E chunk \in ModeResponses : HAL_UARTEx_RxEventCallback(chunk)
RxEventConn == \E chunk \in ConnResponses : HAL_UARTEx_RxEventCallback(chunk)

\* HAL_UART_TxCpltCallback: the DMA transmission has ended.
HAL_UART_TxCpltCallback ==
    /\ huart = "BUSY_TX_DMA"
    /\ huart' = "READY"
    /\ esp8266' = [esp8266 EXCEPT !.txBusy = 0]
    /\ g' = GForget([g EXCEPT !.atReturn = FALSE])
    /\ UNCHANGED <<stack, ret>>
    /\ UNCHANGED mqtt

---------------------------------------------------------------------------
(* ESP8266_ClearBuffer *)

\* Lines 465-469.
ESP8266_ClearBuffer(h) == [h EXCEPT !.rxBuffer = "", !.rxLength = 0, !.rxComplete = 0]

GClear(h) == [h EXCEPT !.answer = NoChunk, !.markerSeen = FALSE, !.polled = FALSE,
                       !.lastChunk = NoChunk]

---------------------------------------------------------------------------
(* ESP8266_SendDMA *)

\* HAL_UART_Transmit_DMA: refused while the UART is transmitting; otherwise the
\* transfer starts, or the DMA fails to start.
HAL_UART_Transmit_DMA(gState) ==
    IF gState # "READY" THEN {"HAL_BUSY"} ELSE {"HAL_OK", "HAL_ERROR"}

\* Lines 37-39: the parameter check, then timeout = HAL_GetTick().
SendDMA_Entry ==
    /\ At("DMA_entry")
    /\ IF Top.data = NULL \/ Top.len = 0
       THEN /\ Return(ESP8266_INVALID_PARAM)
            /\ g' = GReturn([g EXCEPT !.dmaCalls = @ + 1])
       ELSE /\ SetTop([Top EXCEPT !.pc = "DMA_claim", !.t = 0])
            /\ g' = [g EXCEPT !.dmaCalls = @ + 1]
            /\ UNCHANGED ret
    /\ UNCHANGED <<esp8266, huart>>
    /\ UNCHANGED mqtt

\* Lines 40-49: one pass of the wait for the slot; when it is free, the slot is taken
\* and the transfer handed to the HAL.
SendDMA_Claim ==
    /\ At("DMA_claim")
    /\ IF esp8266.txBusy # 0
       THEN IF Top.t > TX_BUSY_WAIT
            THEN /\ Return(ESP8266_TIMEOUT)
                 /\ g' = GReturn([g EXCEPT !.dmaFailed = TRUE])
                 /\ UNCHANGED <<esp8266, huart>>
            ELSE /\ SetTop([Top EXCEPT !.t = @ + HAL_Delay(TX_POLL_DELAY)])
                 /\ UNCHANGED <<esp8266, huart, ret, g>>
       ELSE \E r \in HAL_UART_Transmit_DMA(huart) :
              IF r # "HAL_OK"
              THEN /\ esp8266' = [esp8266 EXCEPT !.txBusy = 0]
                   /\ Return(ESP8266_ERROR)
                   /\ g' = GReturn([g EXCEPT !.dmaFailed = TRUE,
                                             !.txAttempts = @ + 1])
                   /\ UNCHANGED huart
              ELSE /\ esp8266' = [esp8266 EXCEPT !.txBusy = 1]
                   /\ huart' = "BUSY_TX_DMA"
                   /\ SetTop([Top EXCEPT !.pc = "DMA_done", !.t = 0])
                   /\ g' = [g EXCEPT !.txAttempts = @ + 1]
                   /\ UNCHANGED ret
    /\ UNCHANGED mqtt

\* Mutant: the give-up leaves the slot marked busy.
SendDMA_GiveUp_KeepBusy ==
    /\ Return(ESP8266_TIMEOUT)
    /\ g' = GReturn([g EXCEPT !.dmaFailed = TRUE])
    /\ UNCHANGED <<esp8266, huart>>
    /\ UNCHANGED mqtt

\* The completion wait gives up: lines 53-56.
SendDMA_GiveUp ==
    /\ esp8266' = [esp8266 EXCEPT !.txBusy = 0]
    /\ Return(ESP8266_TIMEOUT)
    /\ g' = GReturn([g EXCEPT !.dmaFailed = TRUE])
    /\ UNCHANGED huart
    /\ UNCHANGED mqtt

\* Lines 51-59: one pass of the wait for the completion notification.
SendDMA_Done ==
    /\ At("DMA_done")
    /\ IF esp8266.txBusy = 0
       THEN /\ Return(ESP8266_OK)
            /\ g' = GReturn(g)
            /\ UNCHANGED <<esp8266, huart>>
       ELSE IF Top.t > TX_DONE_WAIT
            THEN SendDMA_GiveUp
            ELSE /\ SetTop([Top EXCEPT !.t = @ + HAL_Delay(TX_POLL_DELAY)])
                 /\ UNCHANGED <<esp8266, huart, ret, g>>
    /\ UNCHANGED mqtt

---------------------------------------------------------------------------
(* ESP8266_WaitForResponse, one pass of its loop *)

\* What a pass of `while (HAL_GetTick() - start < timeout)` does with elapsed time t.
WaitForResponse_Pass(response, timeout, t) ==
    IF t < timeout
    THEN IF ESP8266_ContainsString(response) THEN "found" ELSE "delay"
    ELSE "expired"

---------------------------------------------------------------------------
(* ESP8266_SendCommand *)

\* Lines 445-448: the NULL check, ClearBuffer, then the command goes to SendDMA.
SendCommand_Entry ==
    /\ At("SC_entry")
    /\ IF Top.cmd = NULL
       THEN /\ Return(ESP8266_INVALID_PARAM)
            /\ g' = GReturn(g)
            /\ UNCHANGED esp8266
       ELSE /\ esp8266' = ESP8266_ClearBuffer(esp8266)
            /\ Call(SendDMA_Frame(Top.cmd, strlen(Top.cmd)), "SC_sent")
            /\ g' = [GClear(g) EXCEPT !.cmds = Append(@, Top.cmd)]
            /\ UNCHANGED ret
    /\ UNCHANGED huart
    /\ UNCHANGED mqtt

\* Mutant: the wait is entered whatever the expected token.
SendCommand_Sent_AlwaysWait ==
    /\ At("SC_sent")
    /\ SetTop([Top EXCEPT !.pc = "SC_poll", !.t = 0])
    /\ g' = [g EXCEPT !.waited = TRUE]
    /\ UNCHANGED <<esp8266, huart, ret>>
    /\ UNCHANGED mqtt

\* Line 450, and the start of WaitForResponse (start = HAL_GetTick()); SendDMA's
\* status is not read.
SendCommand_Sent ==
    /\ At("SC_sent")
    /\ IF Top.expectedResp = NULL
       THEN /\ Return(ESP8266_OK)
            /\ g' = GReturn(g)
       ELSE /\ SetTop([Top EXCEPT !.pc = "SC_poll", !.t = 0])
            /\ g' = [g EXCEPT !.waited = TRUE]
            /\ UNCHANGED ret
    /\ UNCHANGED <<esp8266, huart>>
    /\ UNCHANGED mqtt

\* Mutant: the ERROR marker is not looked for.
SendCommand_Classify_NoError ==
    IF ESP8266_ContainsString("BUSY") THEN ESP8266_BUSY ELSE ESP8266_TIMEOUT

\* Lines 452-454: the classification once WaitForResponse has returned 0.
SendCommand_Classify ==
    IF ESP8266_ContainsString("ERROR") THEN ESP8266_ERROR
    ELSE IF ESP8266_ContainsString("BUSY") THEN ESP8266_BUSY
    ELSE ESP8266_TIMEOUT

\* Line 451 with a pass of WaitForResponse's loop, up to its HAL_Delay.
SendCommand_Poll ==
    /\ At("SC_poll")
    /\ LET pass == WaitForResponse_Pass(Top.expectedResp, Top.timeout, Top.t) IN
       CASE pass = "found" ->
              /\ Return(ESP8266_OK)
              /\ g' = GReturn([g EXCEPT !.polled = TRUE])
         [] pass = "delay" ->
              /\ Goto("SC_delay")
              /\ g' = [g EXCEPT !.polled = TRUE]
              /\ UNCHANGED ret
         [] pass = "expired" ->
              /\ Return(SendCommand_Classify)
              /\ g' = GReturn(g)
    /\ UNCHANGED <<esp8266, huart>>
    /\ UNCHANGED mqtt

\* Mutant: the delay returns without the tick having advanced.
SendCommand_Delay_TickStopped ==
    /\ At("SC_delay")
    /\ SetTop([Top EXCEPT !.pc = "SC_poll"])
    /\ UNCHANGED <<esp8266, huart, ret, g>>
    /\ UNCHANGED mqtt

\* ESP8266_Delay(10) of WaitForResponse's loop.
SendCommand_Delay ==
    /\ At("SC_delay")
    /\ SetTop([Top EXCEPT !.pc = "SC_poll", !.t = @ + HAL_Delay(POLL_DELAY)])
    /\ UNCHANGED <<esp8266, huart, ret, g>>
    /\ UNCHANGED mqtt

---------------------------------------------------------------------------
(* ESP8266_Send *)

\* The %d of the command formats, for the small numbers of the model.
Itoa(n) == ToString(n)

\* Lines 340-346: the parameter check, then the AT+CIPSEND exchange for the '>' prompt.
Send_Entry ==
    /\ At("Send_entry")
    /\ IF Top.data = NULL \/ Top.len = 0
       THEN /\ Return(ESP8266_INVALID_PARAM)
            /\ g' = GReturn(g)
       ELSE /\ Call(SendCommandF_Frame(">", ESP8266_DEFAULT_TIMEOUT,
                       IF esp8266.multiConnMode # 0
                       THEN "AT+CIPSEND=" \o Itoa(Top.linkId) \o "," \o Itoa(Top.len) \o "\r\n"
                       ELSE "AT+CIPSEND=" \o Itoa(Top.len) \o "\r\n"),
                    "Send_prompt")
            /\ UNCHANGED <<ret, g>>
    /\ UNCHANGED <<esp8266, huart>>
    /\ UNCHANGED mqtt

\* Lines 348-351: without the prompt SEND_FAIL; with it ClearBuffer and the payload
\* goes to SendDMA.
Send_Prompt ==
    /\ At("Send_prompt")
    /\ IF ret # ESP8266_OK
       THEN /\ Return(ESP8266_SEND_FAIL)
            /\ g' = GReturn(g)
            /\ UNCHANGED esp8266
       ELSE /\ esp8266' = ESP8266_ClearBuffer(esp8266)
            /\ Call(SendDMA_Frame(Top.data, Top.len), "Send_streamed")
            /\ g' = [GClear(g) EXCEPT !.promptSeen = TRUE, !.streamed = TRUE]
            /\ UNCHANGED ret
    /\ UNCHANGED huart
    /\ UNCHANGED mqtt

\* Line 353: WaitForResponse("SEND OK") starts; SendDMA's status is not read.
Send_Streamed ==
    /\ At("Send_streamed")
    /\ SetTop([Top EXCEPT !.pc = "Send_poll", !.t = 0])
    /\ g' = [g EXCEPT !.waited = TRUE, !.payloadStatus = ret]
    /\ UNCHANGED <<esp8266, huart, ret>>
    /\ UNCHANGED mqtt

\* Lines 353-354 with a pass of WaitForResponse's loop, up to its HAL_Delay.
Send_Poll ==
    /\ At("Send_poll")
    /\ LET pass == WaitForResponse_Pass("SEND OK", ESP8266_DEFAULT_TIMEOUT, Top.t) IN
       CASE pass = "found" ->
              /\ Return(ESP8266_OK)
              /\ g' = GReturn([g EXCEPT !.polled = TRUE])
         [] pass = "delay" ->
              /\ Goto("Send_delay")
              /\ g' = [g EXCEPT !.polled = TRUE]
              /\ UNCHANGED ret
         [] pass = "expired" ->
              /\ Return(ESP8266_SEND_FAIL)
              /\ g' = GReturn(g)
    /\ UNCHANGED <<esp8266, huart>>
    /\ UNCHANGED mqtt

\* ESP8266_Delay(10) of WaitForResponse's loop.
Send_Delay ==
    /\ At("Send_delay")
    /\ SetTop([Top EXCEPT !.pc = "Send_poll", !.t = @ + HAL_Delay(POLL_DELAY)])
    /\ UNCHANGED <<esp8266, huart, ret, g>>
    /\ UNCHANGED mqtt

---------------------------------------------------------------------------
(* ESP8266_ExitTransparent *)

\* HAL_UART_Transmit (blocking): refused while the UART is transmitting.
HAL_UART_Transmit(gState) == IF gState # "READY" THEN "HAL_BUSY" ELSE "HAL_OK"

\* Line 381: the guard time before the escape sequence.
ExitTransparent_Entry ==
    /\ At("ET_entry")
    /\ Goto("ET_escape")
    /\ UNCHANGED <<esp8266, huart, ret, g>>
    /\ UNCHANGED mqtt

\* Line 382: HAL_UART_Transmit(huart, "+++", 3, HAL_MAX_DELAY); its status is not read.
ExitTransparent_Escape ==
    /\ At("ET_escape")
    /\ IF HAL_UART_Transmit(huart) = "HAL_OK"
       THEN /\ huart' = "BUSY_TX"
            /\ Goto("ET_escaping")
            /\ g' = [g EXCEPT !.escapeSent = TRUE]
       ELSE /\ Goto("ET_guard")
            /\ g' = [g EXCEPT !.escapeDropped = TRUE]
            /\ UNCHANGED huart
    /\ UNCHANGED <<esp8266, ret>>
    /\ UNCHANGED mqtt

\* The blocking transmission of the three bytes ends.
ExitTransparent_Escaped ==
    /\ At("ET_escaping")
    /\ huart' = "READY"
    /\ Goto("ET_guard")
    /\ UNCHANGED <<esp8266, ret, g>>
    /\ UNCHANGED mqtt

\* Lines 383-385: the guard time after it, transparentMode = 0, the AT+CIPMODE=0 exchange.
ExitTransparent_Guard ==
    /\ At("ET_guard")
    /\ esp8266' = [esp8266 EXCEPT !.transparentMode = 0]
    /\ Call(SendCommand_Frame("AT+CIPMODE=0\r\n", "OK", ESP8266_DEFAULT_TIMEOUT), "ET_ret")
    /\ UNCHANGED <<huart, ret, g>>
    /\ UNCHANGED mqtt

\* Line 385: the exchange's status is returned.
ExitTransparent_Ret ==
    /\ At("ET_ret")
    /\ Return(ret)
    /\ g' = GReturn(g)
    /\ UNCHANGED <<esp8266, huart>>
    /\ UNCHANGED mqtt

---------------------------------------------------------------------------
(* ESP8266_GetIPInfo *)

\* The index of the first occurrence of tok in buf from index `from` on, 0 if none.
Find(buf, tok, from) ==
    LET hits == {i \in from..(Len(buf) + 1 - Len(tok)) :
                    SubSeq(buf, i, i + Len(tok) - 1) = tok}
    IN IF hits = {} THEN 0 ELSE CHOOSE i \in hits : \A j \in hits : i <= j

Min(a, b) == IF a < b THEN a ELSE b

\* Lines 242-247: the text between STAIP," and the next quote, at most 15 characters.
ParseStaIp(buf, old) ==
    LET p == Find(buf, "STAIP,\"", 1) IN
    IF p = 0 THEN old
    ELSE LET q == Find(buf, "\"", p + 7) IN
         IF q = 0 THEN old ELSE SubSeq(buf, p + 7, p + 6 + Min(q - (p + 7), 15))

\* Lines 239-240.
GetIPInfo_Entry ==
    /\ At("IP_entry")
    /\ IF Top.ipInfo = NULL
       THEN /\ Return(ESP8266_INVALID_PARAM)
            /\ g' = GReturn(g)
       ELSE /\ Call(SendCommand_Frame("AT+CIFSR\r\n", "OK", ESP8266_DEFAULT_TIMEOUT),
                    "IP_parse")
            /\ UNCHANGED <<ret, g>>
    /\ UNCHANGED <<esp8266, huart>>
    /\ UNCHANGED mqtt

\* Lines 241-249.
GetIPInfo_Parse ==
    /\ At("IP_parse")
    /\ esp8266' = IF ret = ESP8266_OK
                  THEN [esp8266 EXCEPT !.ip = ParseStaIp(esp8266.rxBuffer, @)]
                  ELSE esp8266
    /\ Return(ret)
    /\ g' = GReturn(g)
    /\ UNCHANGED huart
    /\ UNCHANGED mqtt

---------------------------------------------------------------------------
(* ESP8266_ConnectAP *)

\* Lines 184-191.
ConnectAP_Entry ==
    /\ At("CAP_entry")
    /\ IF Top.ssid = NULL
       THEN /\ Return(ESP8266_INVALID_PARAM)
            /\ g' = GReturn(g)
       ELSE /\ Call(SendCommandF_Frame("OK", ESP8266_CONNECT_TIMEOUT,
                       IF Top.password # NULL /\ strlen(Top.password) > 0
                       THEN "AT+CWJAP=\"" \o Top.ssid \o "\",\"" \o Top.password \o "\"\r\n"
                       ELSE "AT+CWJAP=\"" \o Top.ssid \o "\",\"\"\r\n"),
                    "CAP_joined")
            /\ UNCHANGED <<ret, g>>
    /\ UNCHANGED <<esp8266, huart>>
    /\ UNCHANGED mqtt

\* Lines 193-200: on OK wifiConnected = 1, the callback, then GetIPInfo; otherwise
\* wifiConnected = 0 and CONNECT_FAIL when the buffer holds FAIL.
ConnectAP_Joined ==
    /\ At("CAP_joined")
    /\ IF ret = ESP8266_OK
       THEN /\ esp8266' = [esp8266 EXCEPT !.wifiConnected = 1]
            /\ stack' = <<GetIPInfo_Frame("&esp8266.ipInfo"),
                           [Top EXCEPT !.pc = "CAP_ret", !.ret = ret]>> \o Tail(stack)
            /\ g' = [g EXCEPT
                       !.connectedCalls = IF esp8266.onWifiConnected # NULL
                                          THEN Count(@) ELSE @]
            /\ UNCHANGED ret
       ELSE /\ esp8266' = [esp8266 EXCEPT !.wifiConnected = 0]
            /\ Return(IF ESP8266_ContainsString("FAIL") THEN ESP8266_CONNECT_FAIL ELSE ret)
            /\ g' = GReturn(g)
    /\ UNCHANGED huart
    /\ UNCHANGED mqtt

\* Line 201 after GetIPInfo, whose status is not read.
ConnectAP_Ret ==
    /\ At("CAP_ret")
    /\ Return(Top.ret)
    /\ g' = GReturn(g)
    /\ UNCHANGED <<esp8266, huart>>
    /\ UNCHANGED mqtt

---------------------------------------------------------------------------
(* ESP8266_Connect, ESP8266_ConnectEx *)

\* Lines 289 and 298: the protocol name of the connection type.
TypeStr(type) == IF type = "ESP8266_TCP" THEN "TCP"
                 ELSE IF type = "ESP8266_UDP" THEN "UDP" ELSE "SSL"

\* Lines 291-293 and 300-302: the status from the exchange's status and the buffer.
Connect_Status(exchange) ==
    IF exchange = ESP8266_OK \/ ESP8266_ContainsString("CONNECT") THEN ESP8266_OK
    ELSE IF ESP8266_ContainsString("ALREADY") THEN ESP8266_ALREADY_CONNECTED
    ELSE ESP8266_CONNECT_FAIL

\* Lines 288-290.
Connect_Entry ==
    /\ At("Conn_entry")
    /\ IF Top.host = NULL
       THEN /\ Return(ESP8266_INVALID_PARAM)
            /\ g' = GReturn(g)
       ELSE /\ Call(SendCommandF_Frame("OK", ESP8266_CONNECT_TIMEOUT,
                       "AT+CIPSTART=\"" \o TypeStr(Top.type) \o "\",\"" \o Top.host
                           \o "\"," \o Itoa(Top.port) \o "\r\n"),
                    "Conn_ret")
            /\ UNCHANGED <<ret, g>>
    /\ UNCHANGED <<esp8266, huart>>
    /\ UNCHANGED mqtt

\* Lines 291-293; *linkId = 0 when the caller gave a place for it.
Connect_Ret ==
    /\ At("Conn_ret")
    /\ Return(Connect_Status(ret))
    /\ g' = GReturn([g EXCEPT !.linkIdOut =
                 IF Connect_Status(ret) = ESP8266_OK /\ Top.linkId # NULL THEN 0 ELSE @])
    /\ UNCHANGED <<esp8266, huart>>
    /\ UNCHANGED mqtt

\* Lines 297-299.
ConnectEx_Entry ==
    /\ At("ConnEx_entry")
    /\ IF Top.host = NULL \/ Top.linkId >= ESP8266_MAX_CONNECTIONS
       THEN /\ Return(ESP8266_INVALID_PARAM)
            /\ g' = GReturn(g)
       ELSE /\ Call(SendCommandF_Frame("OK", ESP8266_CONNECT_TIMEOUT,
                       "AT+CIPSTART=" \o Itoa(Top.linkId) \o ",\"" \o TypeStr(Top.type)
                           \o "\",\"" \o Top.host \o "\"," \o Itoa(Top.port) \o "\r\n"),
                    "ConnEx_ret")
            /\ UNCHANGED <<ret, g>>
    /\ UNCHANGED <<esp8266, huart>>
    /\ UNCHANGED mqtt

\* Lines 300-302.
ConnectEx_Ret ==
    /\ At("ConnEx_ret")
    /\ Return(Connect_Status(ret))
    /\ g' = GReturn(g)
    /\ UNCHANGED <<esp8266, huart>>
    /\ UNCHANGED mqtt

---------------------------------------------------------------------------
(* ESP8266_SetMultiConn, ESP8266_StartServer, ESP8266_StopServer *)

\* Line 282: the AT+CIPMUX exchange.
SetMultiConn_Entry ==
    /\ At("MC_entry")
    /\ Call(SendCommandF_Frame("OK", ESP8266_DEFAULT_TIMEOUT,
               "AT+CIPMUX=" \o Itoa(IF Top.enable # 0 THEN 1 ELSE 0) \o "\r\n"),
            "MC_ret")
    /\ UNCHANGED <<esp8266, huart, ret, g>>
    /\ UNCHANGED mqtt

\* Lines 283-284.
SetMultiConn_Ret ==
    /\ At("MC_ret")
    /\ esp8266' = IF ret = ESP8266_OK
                  THEN [esp8266 EXCEPT !.multiConnMode = Top.enable]
                  ELSE esp8266
    /\ Return(ret)
    /\ g' = GReturn(g)
    /\ UNCHANGED huart
    /\ UNCHANGED mqtt

\* The AT+CIPSERVER=1 exchange of line 323.
StartServer_Exchange(port) ==
    SendCommandF_Frame("OK", ESP8266_DEFAULT_TIMEOUT,
                       "AT+CIPSERVER=1," \o Itoa(port) \o "\r\n")

\* Lines 322-323: SetMultiConn(1) when the mode is off, else the exchange at once.
StartServer_Entry ==
    /\ At("SS_entry")
    /\ IF esp8266.multiConnMode = 0
       THEN Call(SetMultiConn_Frame(1), "SS_server")
       ELSE Call(StartServer_Exchange(Top.port), "SS_ret")
    /\ UNCHANGED <<esp8266, huart, ret, g>>
    /\ UNCHANGED mqtt

\* Line 323 after SetMultiConn, whose status is not read.
StartServer_Server ==
    /\ At("SS_server")
    /\ Call(StartServer_Exchange(Top.port), "SS_ret")
    /\ UNCHANGED <<esp8266, huart, ret, g>>
    /\ UNCHANGED mqtt

\* Lines 324-325.
StartServer_Ret ==
    /\ At("SS_ret")
    /\ esp8266' = IF ret = ESP8266_OK
                  THEN [esp8266 EXCEPT !.serverStarted = 1]
                  ELSE esp8266
    /\ Return(ret)
    /\ g' = GReturn(g)
    /\ UNCHANGED huart
    /\ UNCHANGED mqtt

\* Line 329.
StopServer_Entry ==
    /\ At("ST_entry")
    /\ Call(SendCommand_Frame("AT+CIPSERVER=0\r\n", "OK", ESP8266_DEFAULT_TIMEOUT), "ST_ret")
    /\ UNCHANGED <<esp8266, huart, ret, g>>
    /\ UNCHANGED mqtt

\* Lines 330-331.
StopServer_Ret ==
    /\ At("ST_ret")
    /\ esp8266' = IF ret = ESP8266_OK
                  THEN [esp8266 EXCEPT !.serverStarted = 0]
                  ELSE esp8266
    /\ Return(ret)
    /\ g' = GReturn(g)
    /\ UNCHANGED huart
    /\ UNCHANGED mqtt

---------------------------------------------------------------------------
(* ESP8266_EnterTransparent, ESP8266_TransparentSend *)

\* The AT+CIPMODE=1 exchange of line 373.
EnterTransparent_Exchange ==
    SendCommand_Frame("AT+CIPMODE=1\r\n", "OK", ESP8266_DEFAULT_TIMEOUT)

\* Lines 372-373: SetMultiConn(0) when the mode is on, else the exchange at once.
EnterTransparent_Entry ==
    /\ At("ENT_entry")
    /\ IF esp8266.multiConnMode # 0
       THEN Call(SetMultiConn_Frame(0), "ENT_mode")
       ELSE Call(EnterTransparent_Exchange, "ENT_send")
    /\ UNCHANGED <<esp8266, huart, ret, g>>
    /\ UNCHANGED mqtt

\* Line 373 after SetMultiConn, whose status is not read.
EnterTransparent_Mode ==
    /\ At("ENT_mode")
    /\ Call(EnterTransparent_Exchange, "ENT_send")
    /\ UNCHANGED <<esp8266, huart, ret, g>>
    /\ UNCHANGED mqtt

\* Lines 374-375.
EnterTransparent_Send ==
    /\ At("ENT_send")
    /\ IF ret # ESP8266_OK
       THEN /\ Return(ret)
            /\ g' = GReturn(g)
       ELSE /\ Call(SendCommand_Frame("AT+CIPSEND\r\n", ">", ESP8266_DEFAULT_TIMEOUT),
                    "ENT_ret")
            /\ UNCHANGED <<ret, g>>
    /\ UNCHANGED <<esp8266, huart>>
    /\ UNCHANGED mqtt

\* Lines 376-377.
EnterTransparent_Ret ==
    /\ At("ENT_ret")
    /\ esp8266' = IF ret = ESP8266_OK
                  THEN [esp8266 EXCEPT !.transparentMode = 1]
                  ELSE esp8266
    /\ Return(ret)
    /\ g' = GReturn(g)
    /\ UNCHANGED huart
    /\ UNCHANGED mqtt

\* Lines 389-390.
TransparentSend_Entry ==
    /\ At("TS_entry")
    /\ IF esp8266.transparentMode = 0 \/ Top.data = NULL \/ Top.len = 0
       THEN /\ Return(ESP8266_ERROR)
            /\ g' = GReturn(g)
       ELSE /\ Call(SendDMA_Frame(Top.data, Top.len), "TS_ret")
            /\ UNCHANGED <<ret, g>>
    /\ UNCHANGED <<esp8266, huart>>
    /\ UNCHANGED mqtt

\* Line 390: SendDMA's status is returned.
TransparentSend_Ret ==
    /\ At("TS_ret")
    /\ Return(ret)
    /\ g' = GReturn(g)
    /\ UNCHANGED <<esp8266, huart>>
    /\ UNCHANGED mqtt

---------------------------------------------------------------------------
(* ESP8266_ProcessData *)

Digits == <<"0", "1", "2", "3", "4", "5", "6", "7", "8", "9">>
IsDigit(c) == \E d \in 1..10 : Digits[d] = c
DigitValue(c) == (CHOOSE d \in 1..10 : Digits[d] = c) - 1

\* atoi on the text from index i on: the leading decimal digits, 0 if none.
RECURSIVE AtoiFrom(_, _, _)
AtoiFrom(buf, i, acc) ==
    IF i <= Len(buf) /\ IsDigit(SubSeq(buf, i, i))
    THEN AtoiFrom(buf, i + 1, acc * 10 + DigitValue(SubSeq(buf, i, i)))
    ELSE acc
atoi(buf, i) == AtoiFrom(buf, i, 0)

\* ESP8266_ParseIPD (lines 492-506): [ok, linkId, length, data].
ESP8266_ParseIPD(buf, multiConnMode) ==
    LET none == [ok |-> 0, linkId |-> 0, length |-> 0, data |-> ""]
        p0 == Find(buf, "+IPD,", 1)
    IN
    IF p0 = 0 THEN none
    ELSE LET p1 == p0 + 5
             comma == Find(buf, ",", p1)
             linkId == IF multiConnMode # 0 THEN atoi(buf, p1) % 256 ELSE 0
             p2 == IF multiConnMode # 0 THEN comma + 1 ELSE p1
         IN
         IF multiConnMode # 0 /\ comma = 0 THEN none
         ELSE LET length == atoi(buf, p2) % 65536
                  colon == Find(buf, ":", p2)
              IN
              IF colon = 0 THEN none
              ELSE [ok |-> 1, linkId |-> linkId, length |-> length,
                    data |-> SubSeq(buf, colon + 1,
                                    Min(colon + Min(length, ESP8266_RX_BUF_SIZE - 1),
                                        Len(buf)))]

\* Lines 508-525, with the callbacks it invokes.
ESP8266_ProcessData ==
    /\ Idle
    /\ IF esp8266.rxComplete = 0
       THEN /\ g' = GCall([op |-> "ProcessData", before |-> esp8266])
            /\ UNCHANGED esp8266
       ELSE LET disc == ESP8266_ContainsString("WIFI DISCONNECT")
                conn == ~disc /\ ESP8266_ContainsString("WIFI CONNECTED")
                ipd == IF ESP8266_ContainsString("+IPD,")
                       THEN ESP8266_ParseIPD(esp8266.rxBuffer, esp8266.multiConnMode)
                       ELSE [ok |-> 0]
            IN
            /\ esp8266' = [esp8266 EXCEPT
                             !.wifiConnected = IF disc THEN 0 ELSE IF conn THEN 1 ELSE @]
            /\ g' = [GCall([op |-> "ProcessData", before |-> esp8266]) EXCEPT
                       !.connectedCalls = IF conn /\ esp8266.onWifiConnected # NULL
                                          THEN Count(@) ELSE @,
                       !.fired =
                           {cb \in {esp8266.onWifiDisconnected} : disc /\ cb # NULL}
                           \cup {cb \in {esp8266.onWifiConnected} : conn /\ cb # NULL}
                           \cup {cb \in {esp8266.onDataReceived} : ipd.ok = 1 /\ cb # NULL},
                       !.rxData = IF ipd.ok = 1 /\ esp8266.onDataReceived # NULL
                                  THEN ipd ELSE [ok |-> 0]]
    /\ UNCHANGED <<huart, stack, ret>>
    /\ UNCHANGED mqtt

---------------------------------------------------------------------------
(* Callback registration: lines 486-488 *)

ESP8266_SetOnDataReceived ==
    /\ Idle
    /\ \E cb \in {NULL, "OnDataReceived"} :
         esp8266' = [esp8266 EXCEPT !.onDataReceived = cb]
    /\ UNCHANGED <<huart, stack, ret, g>>
    /\ UNCHANGED mqtt

ESP8266_SetOnWifiConnected ==
    /\ Idle
    /\ \E cb \in {NULL, "OnWifiConnected"} :
         esp8266' = [esp8266 EXCEPT !.onWifiConnected = cb]
    /\ UNCHANGED <<huart, stack, ret, g>>
    /\ UNCHANGED mqtt

ESP8266_SetOnWifiDisconnected ==
    /\ Idle
    /\ \E cb \in {NULL, "OnWifiDisconnected"} :
         esp8266' = [esp8266 EXCEPT !.onWifiDisconnected = cb]
    /\ UNCHANGED <<huart, stack, ret, g>>
    /\ UNCHANGED mqtt

---------------------------------------------------------------------------
(* The application's calls *)

Commands == {NULL, "", "AT\r\n"}
Tokens == {NULL, "OK"}
Payloads == {NULL, "hello"}

App_SendCommand ==
    /\ Idle
    /\ \E cmd \in Commands, tok \in Tokens :
         /\ stack' = <<SendCommand_Frame(cmd, tok, ESP8266_DEFAULT_TIMEOUT)>>
         /\ g' = GCall([op |-> "SendCommand", cmd |-> cmd, expectedResp |-> tok])
    /\ UNCHANGED <<esp8266, huart, ret>>
    /\ UNCHANGED mqtt

App_SendDMA ==
    /\ Idle
    /\ \E data \in Payloads, len \in {0, 5} :
         /\ stack' = <<SendDMA_Frame(data, len)>>
         /\ g' = GCall([op |-> "SendDMA", data |-> data, len |-> len])
    /\ UNCHANGED <<esp8266, huart, ret>>
    /\ UNCHANGED mqtt

App_Send ==
    /\ Idle
    /\ \E data \in Payloads, len \in {0, 5} :
         /\ stack' = <<Send_Frame(0, data, len)>>
         /\ g' = GCall([op |-> "Send", data |-> data, len |-> len,
                         transparent |-> esp8266.transparentMode])
    /\ UNCHANGED <<esp8266, huart, ret>>
    /\ UNCHANGED mqtt

App_ExitTransparent ==
    /\ Idle
    /\ stack' = <<ExitTransparent_Frame>>
    /\ g' = GCall([op |-> "ExitTransparent"])
    /\ UNCHANGED <<esp8266, huart, ret>>
    /\ UNCHANGED mqtt

App_ConnectAP ==
    /\ Idle
    /\ \E ssid \in {NULL, "X"}, password \in {NULL, "Y"} :
         /\ stack' = <<ConnectAP_Frame(ssid, password)>>
         /\ g' = GCall([op |-> "ConnectAP", ssid |-> ssid])
    /\ UNCHANGED <<esp8266, huart, ret>>
    /\ UNCHANGED mqtt

App_Connect ==
    /\ Idle
    /\ \E host \in {NULL, "h"}, linkId \in {NULL, "&linkId"} :
         /\ stack' = <<Connect_Frame("ESP8266_TCP", host, 80, linkId)>>
         /\ g' = GCall([op |-> "Connect", host |-> host, linkId |-> 0])
    /\ UNCHANGED <<esp8266, huart, ret>>
    /\ UNCHANGED mqtt

App_ConnectEx ==
    /\ Idle
    /\ \E host \in {NULL, "h"}, linkId \in {0, ESP8266_MAX_CONNECTIONS - 1,
                                          ESP8266_MAX_CONNECTIONS} :
         /\ stack' = <<ConnectEx_Frame(linkId, "ESP8266_SSL", host, 80)>>
         /\ g' = GCall([op |-> "ConnectEx", host |-> host, linkId |-> linkId])
    /\ UNCHANGED <<esp8266, huart, ret>>
    /\ UNCHANGED mqtt

App_SetMultiConn ==
    /\ Idle
    /\ \E enable \in {0, 1} :
         /\ stack' = <<SetMultiConn_Frame(enable)>>
         /\ g' = GCall([op |-> "SetMultiConn", enable |-> enable])
    /\ UNCHANGED <<esp8266, huart, ret>>
    /\ UNCHANGED mqtt

App_StartServer ==
    /\ Idle
    /\ stack' = <<StartServer_Frame(80)>>
    /\ g' = GCall([op |-> "StartServer"])
    /\ UNCHANGED <<esp8266, huart, ret>>
    /\ UNCHANGED mqtt

App_StopServer ==
    /\ Idle
    /\ stack' = <<StopServer_Frame>>
    /\ g' = GCall([op |-> "StopServer"])
    /\ UNCHANGED <<esp8266, huart, ret>>
    /\ UNCHANGED mqtt

App_EnterTransparent ==
    /\ Idle
    /\ stack' = <<EnterTransparent_Frame>>
    /\ g' = GCall([op |-> "EnterTransparent", transparent |-> esp8266.transparentMode])
    /\ UNCHANGED <<esp8266, huart, ret>>
    /\ UNCHANGED mqtt

App_TransparentSend ==
    /\ Idle
    /\ \E data \in Payloads, len \in {0, 5} :
         /\ stack' = <<TransparentSend_Frame(data, len)>>
         /\ g' = GCall([op |-> "TransparentSend", data |-> data, len |-> len])
    /\ UNCHANGED <<esp8266, huart, ret>>
    /\ UNCHANGED mqtt

---------------------------------------------------------------------------

\* The command engine and the transport under it
Next ==
    \/ RxEvent
    \/ HAL_UART_TxCpltCallback
    \/ App_SendCommand
    \/ App_SendDMA
    \/ App_Send
    \/ App_ExitTransparent
    \/ SendDMA_Entry
    \/ SendDMA_Claim
    \/ SendDMA_Done
    \/ SendCommand_Entry
    \/ SendCommand_Sent
    \/ SendCommand_Poll
    \/ SendCommand_Delay
    \/ Send_Entry
    \/ Send_Prompt
    \/ Send_Streamed
    \/ Send_Poll
    \/ Send_Delay
    \/ ExitTransparent_Entry
    \/ ExitTransparent_Escape
    \/ ExitTransparent_Escaped
    \/ ExitTransparent_Guard
    \/ ExitTransparent_Ret

Spec == Init /\ [][Next]_vars

\* The association with an access point and the processing tick
NextWifi ==
    \/ RxEventWifi
    \/ HAL_UART_TxCpltCallback
    \/ App_ConnectAP
    \/ ESP8266_ProcessData
    \/ ESP8266_SetOnWifiConnected
    \/ SendDMA_Entry
    \/ SendDMA_Claim
    \/ SendDMA_Done
    \/ SendCommand_Entry
    \/ SendCommand_Sent
    \/ SendCommand_Poll
    \/ SendCommand_Delay
    \/ ConnectAP_Entry
    \/ ConnectAP_Joined
    \/ ConnectAP_Ret
    \/ GetIPInfo_Entry
    \/ GetIPInfo_Parse

SpecWifi == Init /\ [][NextWifi]_vars

\* The opening of a connection
NextConn ==
    \/ RxEventConn
    \/ HAL_UART_TxCpltCallback
    \/ App_Connect
    \/ App_ConnectEx
    \/ SendDMA_Entry
    \/ SendDMA_Claim
    \/ SendDMA_Done
    \/ SendCommand_Entry
    \/ SendCommand_Sent
    \/ SendCommand_Poll
    \/ SendCommand_Delay
    \/ Connect_Entry
    \/ Connect_Ret
    \/ ConnectEx_Entry
    \/ ConnectEx_Ret

SpecConn == Init /\ [][NextConn]_vars

\* Multi-connection mode and the server
NextServer ==
    \/ RxEventMode
    \/ HAL_UART_TxCpltCallback
    \/ App_SetMultiConn
    \/ App_StartServer
    \/ App_StopServer
    \/ App_EnterTransparent
    \/ SendDMA_Entry
    \/ SendDMA_Claim
    \/ SendDMA_Done
    \/ SendCommand_Entry
    \/ SendCommand_Sent
    \/ SendCommand_Poll
    \/ SendCommand_Delay
    \/ SetMultiConn_Entry
    \/ SetMultiConn_Ret
    \/ StartServer_Entry
    \/ StartServer_Server
    \/ StartServer_Ret
    \/ StopServer_Entry
    \/ StopServer_Ret
    \/ EnterTransparent_Entry
    \/ EnterTransparent_Mode
    \/ EnterTransparent_Send
    \/ EnterTransparent_Ret

SpecServer == Init /\ [][NextServer]_vars

\* Transparent mode and the sends
NextTransparent ==
    \/ RxEventMode
    \/ HAL_UART_TxCpltCallback
    \/ App_EnterTransparent
    \/ App_ExitTransparent
    \/ App_Send
    \/ App_TransparentSend
    \/ SendDMA_Entry
    \/ SendDMA_Claim
    \/ SendDMA_Done
    \/ SendCommand_Entry
    \/ SendCommand_Sent
    \/ SendCommand_Poll
    \/ SendCommand_Delay
    \/ EnterTransparent_Entry
    \/ EnterTransparent_Send
    \/ EnterTransparent_Ret
    \/ ExitTransparent_Entry
    \/ ExitTransparent_Escape
    \/ ExitTransparent_Escaped
    \/ ExitTransparent_Guard
    \/ ExitTransparent_Ret
    \/ Send_Entry
    \/ Send_Prompt
    \/ Send_Streamed
    \/ Send_Poll
    \/ Send_Delay
    \/ TransparentSend_Entry
    \/ TransparentSend_Ret

SpecTransparent == Init /\ [][NextTransparent]_vars

---------------------------------------------------------------------------
(* MQTT_Init, MQTT_Connect (Core/Src/esp8266_mqtt.c) *)

\* What the module answers to the MQTT commands
RespMqttPubOk == "+MQTTPUB:OK\r\n"
RespMqttPubFail == "+MQTTPUB:FAIL\r\n"
MqttConnResponses == {RespOk, RespError, RespBusy}

RxEventMqttConn == \E chunk \in MqttConnResponses : HAL_UARTEx_RxEventCallback(chunk)

MQTT_Connect_Frame == [pc |-> "MConn_entry"]

\* A callback is invoked when it is registered: the invocation is recorded.
Invoke(h, cb, name, arg) == IF cb # NULL THEN [h EXCEPT !.callbacks = Append(@, <<name, arg>>)] ELSE h

\* Lines 61-86: refused without the driver, else the handle is cleared and given
\* its defaults.
MQTT_Init ==
    /\ Idle
    /\ IF esp8266.initialized = 0
       THEN /\ ret' = MQTT_NOT_INITIALIZED
            /\ UNCHANGED mqtt
       ELSE /\ ret' = MQTT_OK
            /\ mqtt' = [MQTT_Zero EXCEPT
                           !.brokerConfig = [host |-> "", port |-> MQTT_DEFAULT_PORT,
                                             reconnect |-> 1],
                           !.state = MQTT_STATE_NOT_INIT, !.initialized = 1]
    /\ g' = [GCall([op |-> "MQTT_Init"]) EXCEPT !.atReturn = TRUE]
    /\ UNCHANGED <<esp8266, huart, stack>>

\* Lines 281-290.
MQTT_SetBroker ==
    /\ Idle
    /\ \E host \in {"broker"} :
         mqtt' = [mqtt EXCEPT !.brokerConfig = [host |-> host, port |-> MQTT_DEFAULT_PORT,
                                                reconnect |-> 1]]
    /\ ret' = MQTT_OK
    /\ g' = [GCall([op |-> "MQTT_SetBroker", before |-> mqtt]) EXCEPT !.atReturn = TRUE]
    /\ UNCHANGED <<esp8266, huart, stack>>

\* Lines 779-782.
MQTT_SetOnConnected ==
    /\ Idle
    /\ \E cb \in {NULL, "OnMQTTConnected"} : mqtt' = [mqtt EXCEPT !.onConnected = cb]
    /\ UNCHANGED <<esp8266, huart, stack, ret, g>>

\* Lines 827-830.
MQTT_SetOnError ==
    /\ Idle
    /\ \E cb \in {NULL, "OnMQTTError"} : mqtt' = [mqtt EXCEPT !.onError = cb]
    /\ UNCHANGED <<esp8266, huart, stack, ret, g>>

\* Lines 314-323: the AT+MQTTCONN exchange; the guards before it are commented out.
MQTT_Connect_Entry ==
    /\ At("MConn_entry")
    /\ Call(SendCommandF_Frame("OK", MQTT_CONNECT_TIMEOUT,
               "AT+MQTTCONN=" \o Itoa(MQTT_LINK_ID) \o ",\"" \o mqtt.brokerConfig.host
                   \o "\"," \o Itoa(mqtt.brokerConfig.port) \o ","
                   \o Itoa(mqtt.brokerConfig.reconnect) \o "\r\n"),
            "MConn_ret")
    /\ UNCHANGED <<esp8266, huart, ret, mqtt, g>>

\* Mutant: a failed connect leaves the session's flag and state as they were.
MQTT_Connect_Ret_KeepSession ==
    /\ At("MConn_ret")
    /\ IF ret # ESP8266_OK
       THEN /\ UNCHANGED mqtt
            /\ g' = GReturn(Invoke([g EXCEPT !.exchange = ret],
                                   mqtt.onError, "onError", MQTT_CONNECT_FAIL))
            /\ Return(MQTT_CONNECT_FAIL)
       ELSE /\ mqtt' = [mqtt EXCEPT !.connected = 1, !.state = MQTT_STATE_CONN_NO_SUB]
            /\ g' = GReturn(Invoke([g EXCEPT !.exchange = ret],
                                   mqtt.onConnected, "onConnected", NULL))
            /\ Return(MQTT_OK)
    /\ UNCHANGED <<esp8266, huart>>

\* Lines 325-339.
MQTT_Connect_Ret ==
    /\ At("MConn_ret")
    /\ IF ret # ESP8266_OK
       THEN /\ mqtt' = [mqtt EXCEPT !.connected = 0, !.state = MQTT_STATE_DISCONNECTED]
            /\ g' = GReturn(Invoke([g EXCEPT !.exchange = ret],
                                   mqtt.onError, "onError", MQTT_CONNECT_FAIL))
            /\ Return(MQTT_CONNECT_FAIL)
       ELSE /\ mqtt' = [mqtt EXCEPT !.connected = 1, !.state = MQTT_STATE_CONN_NO_SUB]
            /\ g' = GReturn(Invoke([g EXCEPT !.exchange = ret],
                                   mqtt.onConnected, "onConnected", NULL))
            /\ Return(MQTT_OK)
    /\ UNCHANGED <<esp8266, huart>>

App_MQTT_Connect ==
    /\ Idle
    /\ stack' = <<MQTT_Connect_Frame>>
    /\ g' = GCall([op |-> "MQTT_Connect", connected |-> mqtt.connected,
                    onConnected |-> mqtt.onConnected, onError |-> mqtt.onError])
    /\ UNCHANGED <<esp8266, huart, ret, mqtt>>

\* The MQTT session: initialisation, broker, callbacks, connect
NextMqtt ==
    \/ RxEventMqttConn
    \/ HAL_UART_TxCpltCallback
    \/ MQTT_Init
    \/ MQTT_SetBroker
    \/ MQTT_SetOnConnected
    \/ MQTT_SetOnError
    \/ App_MQTT_Connect
    \/ SendDMA_Entry
    \/ SendDMA_Claim
    \/ SendDMA_Done
    \/ SendCommand_Entry
    \/ SendCommand_Sent
    \/ SendCommand_Poll
    \/ SendCommand_Delay
    \/ MQTT_Connect_Entry
    \/ MQTT_Connect_Ret

SpecMqtt == Init /\ [][NextMqtt]_vars

---------------------------------------------------------------------------
(* MQTT_Subscribe, MQTT_Unsubscribe, MQTT_GetSubscriptions *)

Slots == 1..MQTT_MAX_SUBSCRIPTIONS

\* strncpy(dst, src, n) into a cleared dst: the first n characters of src.
strncpy(src, n) == IF Len(src) > n THEN SubSeq(src, 1, n) ELSE src

\* The slots holding `topic`: active, and strcmp(...) == 0.
SlotsOf(subs, topic) == {i \in Slots : subs[i].active # 0 /\ subs[i].topic = topic}
FreeSlots(subs) == {i \in Slots : subs[i].active = 0}
First(S) == CHOOSE i \in S : \A j \in S : i <= j

\* Lines 956-978: the QoS of the first entry with the topic is updated; without one,
\* the first free slot takes the topic; without a free slot nothing happens.
MQTT_AddSubscription(h, topic, qos) ==
    IF SlotsOf(h.subscriptions, topic) # {}
    THEN [h EXCEPT !.subscriptions[First(SlotsOf(h.subscriptions, topic))].qos = qos]
    ELSE IF FreeSlots(h.subscriptions) # {}
    THEN [h EXCEPT !.subscriptions[First(FreeSlots(h.subscriptions))] =
                        [topic |-> strncpy(topic, MQTT_TOPIC_MAX_LEN - 1),
                         qos |-> qos, active |-> 1],
                   !.subscriptionCount = @ + 1]
    ELSE h

\* Mutant: the entry found is left in place and its count still dropped.
MQTT_RemoveSubscription_KeepEntry(h, topic) ==
    IF SlotsOf(h.subscriptions, topic) # {}
    THEN [h EXCEPT !.subscriptionCount = @ - 1]
    ELSE h

\* Lines 983-993: the first entry with the topic is cleared.
MQTT_RemoveSubscription(h, topic) ==
    IF SlotsOf(h.subscriptions, topic) # {}
    THEN [h EXCEPT !.subscriptions[First(SlotsOf(h.subscriptions, topic))] =
                        MQTT_NoSubscription,
                   !.subscriptionCount = @ - 1]
    ELSE h

MQTT_Subscribe_Frame(topic, qos) == [pc |-> "MSub_entry", topic |-> topic, qos |-> qos]
MQTT_Unsubscribe_Frame(topic) == [pc |-> "MUnsub_entry", topic |-> topic]

\* Mutant: the session is not asked for.
MQTT_Subscribe_Guard_NoSession(topic) ==
    IF mqtt.initialized = 0 THEN MQTT_NOT_INITIALIZED
    ELSE IF topic = NULL THEN MQTT_INVALID_PARAM
    ELSE IF mqtt.subscriptionCount >= MQTT_MAX_SUBSCRIPTIONS THEN MQTT_BUFFER_FULL
    ELSE MQTT_OK

\* Lines 444-447: the checks before the exchange, in their order.
MQTT_Subscribe_Guard(topic) ==
    IF mqtt.initialized = 0 THEN MQTT_NOT_INITIALIZED
    ELSE IF mqtt.connected = 0 THEN MQTT_NOT_CONNECTED
    ELSE IF topic = NULL THEN MQTT_INVALID_PARAM
    ELSE IF mqtt.subscriptionCount >= MQTT_MAX_SUBSCRIPTIONS THEN MQTT_BUFFER_FULL
    ELSE MQTT_OK

\* Lines 444-454: the checks, then the AT+MQTTSUB exchange.
MQTT_Subscribe_Entry ==
    /\ At("MSub_entry")
    /\ IF MQTT_Subscribe_Guard(Top.topic) # MQTT_OK
       THEN /\ Return(MQTT_Subscribe_Guard(Top.topic))
            /\ g' = GReturn(g)
       ELSE /\ Call(SendCommandF_Frame("OK", MQTT_SUBSCRIBE_TIMEOUT,
                       "AT+MQTTSUB=" \o Itoa(MQTT_LINK_ID) \o ",\"" \o Top.topic \o "\","
                           \o Itoa(Top.qos) \o "\r\n"),
                    "MSub_ret")
            /\ UNCHANGED <<ret, g>>
    /\ UNCHANGED <<esp8266, huart, mqtt>>

\* Lines 456-468.
MQTT_Subscribe_Ret ==
    /\ At("MSub_ret")
    /\ IF ret # ESP8266_OK
       THEN /\ Return(MQTT_SUBSCRIBE_FAIL)
            /\ g' = GReturn([g EXCEPT !.exchange = ret])
            /\ UNCHANGED mqtt
       ELSE /\ mqtt' = [MQTT_AddSubscription(mqtt, Top.topic, Top.qos) EXCEPT
                            !.state = MQTT_STATE_CONN_WITH_SUB]
            /\ g' = GReturn(Invoke([g EXCEPT !.exchange = ret],
                                   mqtt.onSubscribed, "onSubscribed", Top.topic))
            /\ Return(MQTT_OK)
    /\ UNCHANGED <<esp8266, huart>>

\* Lines 499-501: the checks before the exchange, in their order.
MQTT_Unsubscribe_Guard(topic) ==
    IF mqtt.initialized = 0 THEN MQTT_NOT_INITIALIZED
    ELSE IF mqtt.connected = 0 THEN MQTT_NOT_CONNECTED
    ELSE IF topic = NULL THEN MQTT_INVALID_PARAM
    ELSE MQTT_OK

\* Lines 499-508: the checks, then the AT+MQTTUNSUB exchange.
MQTT_Unsubscribe_Entry ==
    /\ At("MUnsub_entry")
    /\ IF MQTT_Unsubscribe_Guard(Top.topic) # MQTT_OK
       THEN /\ Return(MQTT_Unsubscribe_Guard(Top.topic))
            /\ g' = GReturn(g)
       ELSE /\ Call(SendCommandF_Frame("OK", MQTT_DEFAULT_TIMEOUT,
                       "AT+MQTTUNSUB=" \o Itoa(MQTT_LINK_ID) \o ",\"" \o Top.topic
                           \o "\"\r\n"),
                    "MUnsub_ret")
            /\ UNCHANGED <<ret, g>>
    /\ UNCHANGED <<esp8266, huart, mqtt>>

\* Lines 510-521.
MQTT_Unsubscribe_Ret ==
    /\ At("MUnsub_ret")
    /\ IF ret # ESP8266_OK
       THEN /\ Return(MQTT_ERROR)
            /\ g' = GReturn([g EXCEPT !.exchange = ret])
            /\ UNCHANGED mqtt
       ELSE /\ mqtt' = MQTT_RemoveSubscription(mqtt, Top.topic)
            /\ g' = GReturn(Invoke([g EXCEPT !.exchange = ret],
                                   mqtt.onUnsubscribed, "onUnsubscribed", Top.topic))
            /\ Return(MQTT_OK)
    /\ UNCHANGED <<esp8266, huart>>

\* Lines 549-562, called with a list and a count to fill: the active entries are
\* copied out in slot order and counted.
MQTT_GetSubscriptions ==
    /\ Idle
    /\ ret' = MQTT_OK
    /\ LET list == SelectSeq(mqtt.subscriptions, LAMBDA e : e.active # 0) IN
         g' = [GCall([op |-> "MQTT_GetSubscriptions", before |-> mqtt]) EXCEPT
                  !.atReturn = TRUE, !.out = [list |-> list, count |-> Len(list)]]
    /\ UNCHANGED <<esp8266, huart, stack, mqtt>>

\* The topics of the model: Topic(1) .. Topic(8) fill the set, Topic(9) is one more.
Topic(i) == "t" \o ToString(i)
TopicInputs == {NULL, Topic(1), Topic(MQTT_MAX_SUBSCRIPTIONS + 1)}
QoSInputs == {0, 1}

App_MQTT_Subscribe ==
    /\ Idle
    /\ \E topic \in TopicInputs, qos \in QoSInputs :
         /\ stack' = <<MQTT_Subscribe_Frame(topic, qos)>>
         /\ g' = GCall([op |-> "MQTT_Subscribe", topic |-> topic, qos |-> qos,
                         before |-> mqtt])
    /\ UNCHANGED <<esp8266, huart, ret, mqtt>>

App_MQTT_Unsubscribe ==
    /\ Idle
    /\ \E topic \in TopicInputs :
         /\ stack' = <<MQTT_Unsubscribe_Frame(topic)>>
         /\ g' = GCall([op |-> "MQTT_Unsubscribe", topic |-> topic, before |-> mqtt])
    /\ UNCHANGED <<esp8266, huart, ret, mqtt>>

\* The session after MQTT_Init, a successful MQTT_Connect and n successful
\* MQTT_Subscribe calls of the topics Topic(1) .. Topic(n) at QoS 0.
MQTT_Subscribed(n) ==
    [MQTT_Zero EXCEPT
        !.initialized = 1, !.connected = 1,
        !.brokerConfig = [host |-> "", port |-> MQTT_DEFAULT_PORT, reconnect |-> 1],
        !.state = IF n = 0 THEN MQTT_STATE_CONN_NO_SUB ELSE MQTT_STATE_CONN_WITH_SUB,
        !.subscriptions = [i \in Slots |-> IF i <= n
                                           THEN [topic |-> Topic(i), qos |-> 0, active |-> 1]
                                           ELSE MQTT_NoSubscription],
        !.subscriptionCount = n]

\* The subscriptions scenario starts before MQTT_Init, or in a session with 0 to 8
\* subscriptions.
InitSub ==
    /\ esp8266 = [txBusy |-> 0, rxBuffer |-> "", rxLength |-> 0, rxComplete |-> 0,
                  wifiConnected |-> 0, multiConnMode |-> 0, transparentMode |-> 0,
                  serverStarted |-> 0, initialized |-> 1,
                  ip |-> "", onDataReceived |-> NULL,
                  onWifiConnected |-> NULL, onWifiDisconnected |-> NULL]
    /\ huart = "READY"
    /\ stack = <<>>
    /\ ret = ESP8266_OK
    /\ mqtt \in {MQTT_Zero} \cup {MQTT_Subscribed(n) : n \in 0..MQTT_MAX_SUBSCRIPTIONS}
    /\ g = GInit

MqttSubResponses == {RespOk, RespError}
RxEventMqttSub == \E chunk \in MqttSubResponses : HAL_UARTEx_RxEventCallback(chunk)

NextSub ==
    \/ RxEventMqttSub
    \/ HAL_UART_TxCpltCallback
    \/ App_MQTT_Connect
    \/ App_MQTT_Subscribe
    \/ App_MQTT_Unsubscribe
    \/ MQTT_GetSubscriptions
    \/ SendDMA_Entry
    \/ SendDMA_Claim
    \/ SendDMA_Done
    \/ SendCommand_Entry
    \/ SendCommand_Sent
    \/ SendCommand_Poll
    \/ SendCommand_Delay
    \/ MQTT_Connect_Entry
    \/ MQTT_Connect_Ret
    \/ MQTT_Subscribe_Entry
    \/ MQTT_Subscribe_Ret
    \/ MQTT_Unsubscribe_Entry
    \/ MQTT_Unsubscribe_Ret

SpecSub == InitSub /\ [][NextSub]_vars

---------------------------------------------------------------------------
(* MQTT_Publish, MQTT_PublishData, MQTT_PublishRaw, MQTT_PublishF *)

MQTT_Publish_Frame(topic, message, qos, retain) ==
    [pc |-> "MPub_entry", topic |-> topic, message |-> message, qos |-> qos,
     retain |-> retain, len |-> 0, t |-> 0]
MQTT_PublishRaw_Frame(topic, data, len, qos, retain) ==
    [pc |-> "MRaw_entry", topic |-> topic, data |-> data, len |-> len, qos |-> qos,
     retain |-> retain, t |-> 0]
MQTT_PublishData_Frame(topic, data, len, qos, retain) ==
    [pc |-> "MData_entry", topic |-> topic, data |-> data, len |-> len, qos |-> qos,
     retain |-> retain]
MQTT_PublishF_Frame(topic, qos, retain, text) ==
    [pc |-> "MPubF_entry", topic |-> topic, qos |-> qos, retain |-> retain, text |-> text]

\* The AT+MQTTPUBRAW command of lines 586-587 and 672-673.
PubRawCommand(topic, len, qos, retain) ==
    "AT+MQTTPUBRAW=" \o Itoa(MQTT_LINK_ID) \o ",\"" \o topic \o "\"," \o Itoa(len) \o ","
        \o Itoa(qos) \o "," \o Itoa(IF retain # 0 THEN 1 ELSE 0) \o "\r\n"

\* Lines 578-587: the parameter check (the session checks are commented out), then
\* the exchange asking for the '>' prompt.
MQTT_Publish_Entry ==
    /\ At("MPub_entry")
    /\ IF Top.topic = NULL \/ Top.message = NULL
       THEN /\ Return(MQTT_INVALID_PARAM)
            /\ g' = GReturn(g)
            /\ UNCHANGED esp8266
       ELSE /\ stack' = <<SendCommandF_Frame(">", MQTT_DEFAULT_TIMEOUT,
                             PubRawCommand(Top.topic, strlen(Top.message), Top.qos,
                                           Top.retain)),
                          [Top EXCEPT !.pc = "MPub_prompt", !.len = strlen(Top.message)]>>
                         \o Tail(stack)
            /\ UNCHANGED <<esp8266, ret, g>>
    /\ UNCHANGED <<huart, mqtt>>

\* Lines 589-596: without the prompt PUBLISH_FAIL; with it ClearBuffer and the message
\* goes to SendDMA.
MQTT_Publish_Prompt ==
    /\ At("MPub_prompt")
    /\ IF ret # ESP8266_OK
       THEN /\ Return(MQTT_PUBLISH_FAIL)
            /\ g' = GReturn([g EXCEPT !.exchange = ret])
            /\ UNCHANGED esp8266
       ELSE /\ esp8266' = ESP8266_ClearBuffer(esp8266)
            /\ Call(SendDMA_Frame(Top.message, Top.len), "MPub_streamed")
            /\ g' = [GClear(g) EXCEPT !.exchange = ret, !.promptSeen = TRUE,
                                       !.streamed = TRUE]
            /\ UNCHANGED ret
    /\ UNCHANGED <<huart, mqtt>>

\* Lines 597-603: SendDMA's status is read; startTick = HAL_GetTick().
MQTT_Publish_Streamed ==
    /\ At("MPub_streamed")
    /\ IF ret # ESP8266_OK
       THEN /\ Return(MQTT_PUBLISH_FAIL)
            /\ g' = GReturn([g EXCEPT !.payloadStatus = ret])
       ELSE /\ SetTop([Top EXCEPT !.pc = "MPub_poll", !.t = 0])
            /\ g' = [g EXCEPT !.payloadStatus = ret, !.waited = TRUE]
            /\ UNCHANGED ret
    /\ UNCHANGED <<esp8266, huart, mqtt>>

\* Mutant: a bare OK is not taken for the acknowledgement.
MQTT_Publish_Classify_NoBareOk ==
    IF ESP8266_ContainsString("+MQTTPUB:OK")
    THEN MQTT_OK
    ELSE IF ESP8266_ContainsString("ERROR") \/ ESP8266_ContainsString("FAIL")
    THEN MQTT_PUBLISH_FAIL
    ELSE "delay"

\* Lines 605-616: what a pass of the loop finds in the buffer.
MQTT_Publish_Classify ==
    IF ESP8266_ContainsString("+MQTTPUB:OK") \/ ESP8266_ContainsString("OK")
    THEN MQTT_OK
    ELSE IF ESP8266_ContainsString("ERROR") \/ ESP8266_ContainsString("FAIL")
    THEN MQTT_PUBLISH_FAIL
    ELSE "delay"

\* Lines 604-621: one pass of the loop up to its HAL_Delay, or the loop's end.
MQTT_Publish_Poll ==
    /\ At("MPub_poll")
    /\ IF Top.t < MQTT_PUBLISH_TIMEOUT
       THEN CASE MQTT_Publish_Classify = MQTT_OK ->
                   /\ mqtt' = [mqtt EXCEPT !.publishCount = @ + 1]
                   /\ g' = GReturn(Invoke([g EXCEPT !.polled = TRUE, !.elapsed = Top.t],
                                          mqtt.onPublishComplete, "onPublishComplete",
                                          Top.topic))
                   /\ Return(MQTT_OK)
              [] MQTT_Publish_Classify = MQTT_PUBLISH_FAIL ->
                   /\ g' = GReturn([g EXCEPT !.polled = TRUE, !.elapsed = Top.t])
                   /\ Return(MQTT_PUBLISH_FAIL)
                   /\ UNCHANGED mqtt
              [] OTHER ->
                   /\ Goto("MPub_delay")
                   /\ g' = [g EXCEPT !.polled = TRUE]
                   /\ UNCHANGED <<ret, mqtt>>
       ELSE /\ g' = GReturn([g EXCEPT !.elapsed = Top.t])
            /\ Return(MQTT_TIMEOUT)
            /\ UNCHANGED mqtt
    /\ UNCHANGED <<esp8266, huart>>

\* Line 617: HAL_Delay(10).
MQTT_Publish_Delay ==
    /\ At("MPub_delay")
    /\ SetTop([Top EXCEPT !.pc = "MPub_poll", !.t = @ + HAL_Delay(POLL_DELAY)])
    /\ UNCHANGED <<esp8266, huart, ret, mqtt, g>>

\* Lines 666-673.
MQTT_PublishRaw_Entry ==
    /\ At("MRaw_entry")
    /\ IF Top.topic = NULL \/ Top.data = NULL \/ Top.len = 0
       THEN /\ Return(MQTT_INVALID_PARAM)
            /\ g' = GReturn(g)
       ELSE /\ Call(SendCommandF_Frame(">", MQTT_DEFAULT_TIMEOUT,
                       PubRawCommand(Top.topic, Top.len, Top.qos, Top.retain)),
                    "MRaw_prompt")
            /\ UNCHANGED <<ret, g>>
    /\ UNCHANGED <<esp8266, huart, mqtt>>

\* Lines 675-682.
MQTT_PublishRaw_Prompt ==
    /\ At("MRaw_prompt")
    /\ IF ret # ESP8266_OK
       THEN /\ Return(MQTT_PUBLISH_FAIL)
            /\ g' = GReturn([g EXCEPT !.exchange = ret])
            /\ UNCHANGED esp8266
       ELSE /\ esp8266' = ESP8266_ClearBuffer(esp8266)
            /\ Call(SendDMA_Frame(Top.data, Top.len), "MRaw_streamed")
            /\ g' = [GClear(g) EXCEPT !.exchange = ret, !.promptSeen = TRUE,
                                       !.streamed = TRUE]
            /\ UNCHANGED ret
    /\ UNCHANGED <<huart, mqtt>>

\* Lines 683-688: SendDMA's status is read; WaitForResponse starts.
MQTT_PublishRaw_Streamed ==
    /\ At("MRaw_streamed")
    /\ IF ret # ESP8266_OK
       THEN /\ Return(MQTT_PUBLISH_FAIL)
            /\ g' = GReturn([g EXCEPT !.payloadStatus = ret])
       ELSE /\ SetTop([Top EXCEPT !.pc = "MRaw_poll", !.t = 0])
            /\ g' = [g EXCEPT !.payloadStatus = ret, !.waited = TRUE]
            /\ UNCHANGED ret
    /\ UNCHANGED <<esp8266, huart, mqtt>>

\* Lines 688-697 with a pass of WaitForResponse's loop, up to its HAL_Delay.
MQTT_PublishRaw_Poll ==
    /\ At("MRaw_poll")
    /\ LET pass == WaitForResponse_Pass("+MQTTPUB:OK", MQTT_PUBLISH_TIMEOUT, Top.t) IN
       CASE pass = "found" ->
              /\ mqtt' = [mqtt EXCEPT !.publishCount = @ + 1]
              /\ g' = GReturn(Invoke([g EXCEPT !.polled = TRUE, !.elapsed = Top.t],
                                     mqtt.onPublishComplete, "onPublishComplete",
                                     Top.topic))
              /\ Return(MQTT_OK)
         [] pass = "delay" ->
              /\ Goto("MRaw_delay")
              /\ g' = [g EXCEPT !.polled = TRUE]
              /\ UNCHANGED <<ret, mqtt>>
         [] pass = "expired" ->
              /\ g' = GReturn([g EXCEPT !.elapsed = Top.t])
              /\ Return(MQTT_PUBLISH_FAIL)
              /\ UNCHANGED mqtt
    /\ UNCHANGED <<esp8266, huart>>

\* ESP8266_Delay(10) of WaitForResponse's loop.
MQTT_PublishRaw_Delay ==
    /\ At("MRaw_delay")
    /\ SetTop([Top EXCEPT !.pc = "MRaw_poll", !.t = @ + HAL_Delay(POLL_DELAY)])
    /\ UNCHANGED <<esp8266, huart, ret, mqtt, g>>

\* Lines 636-649: the session and parameter checks; short data is published as a
\* string by MQTT_Publish, long data by MQTT_PublishRaw, whose result is returned.
MQTT_PublishData_Entry ==
    /\ At("MData_entry")
    /\ IF mqtt.initialized = 0
       THEN Return(MQTT_NOT_INITIALIZED) /\ g' = GReturn(g)
       ELSE IF mqtt.connected = 0
       THEN Return(MQTT_NOT_CONNECTED) /\ g' = GReturn(g)
       ELSE IF Top.topic = NULL \/ Top.data = NULL \/ Top.len = 0
       THEN Return(MQTT_INVALID_PARAM) /\ g' = GReturn(g)
       ELSE IF Top.len < MQTT_MESSAGE_MAX_LEN
       THEN /\ SetTop(MQTT_Publish_Frame(Top.topic, SubSeq(Top.data, 1, Top.len),
                                         Top.qos, Top.retain))
            /\ UNCHANGED <<ret, g>>
       ELSE /\ SetTop(MQTT_PublishRaw_Frame(Top.topic, Top.data, Top.len, Top.qos,
                                            Top.retain))
            /\ UNCHANGED <<ret, g>>
    /\ UNCHANGED <<esp8266, huart, mqtt>>

\* Lines 711-717: the text is formatted into buf[MQTT_MESSAGE_MAX_LEN] and published
\* by MQTT_Publish, whose result is returned.
MQTT_PublishF_Entry ==
    /\ At("MPubF_entry")
    /\ SetTop(MQTT_Publish_Frame(Top.topic, strncpy(Top.text, MQTT_MESSAGE_MAX_LEN - 1),
                                 Top.qos, Top.retain))
    /\ UNCHANGED <<esp8266, huart, ret, mqtt, g>>

\* Lines 803-806.
MQTT_SetOnPublishComplete ==
    /\ Idle
    /\ \E cb \in {NULL, "OnPublishComplete"} : mqtt' = [mqtt EXCEPT !.onPublishComplete = cb]
    /\ UNCHANGED <<esp8266, huart, stack, ret, g>>

\* A block of MQTT_MESSAGE_MAX_LEN bytes, of which the model keeps the name only
LongData == "<1024 bytes>"
PubTopics == {NULL, "t"}
PubMessages == {NULL, "hello"}
PubData == {<<NULL, 5>>, <<"hello", 5>>, <<LongData, MQTT_MESSAGE_MAX_LEN>>}

App_MQTT_Publish ==
    /\ Idle
    /\ mqtt.publishCount < MaxPublish
    /\ \E topic \in PubTopics, message \in PubMessages :
         /\ stack' = <<MQTT_Publish_Frame(topic, message, 0, 0)>>
         /\ g' = GCall([op |-> "MQTT_Publish", topic |-> topic, data |-> message,
                         before |-> mqtt])
    /\ UNCHANGED <<esp8266, huart, ret, mqtt>>

App_MQTT_PublishF ==
    /\ Idle
    /\ mqtt.publishCount < MaxPublish
    /\ \E topic \in PubTopics :
         /\ stack' = <<MQTT_PublishF_Frame(topic, 0, 0, "v=1")>>
         /\ g' = GCall([op |-> "MQTT_PublishF", topic |-> topic, data |-> "v=1",
                         before |-> mqtt])
    /\ UNCHANGED <<esp8266, huart, ret, mqtt>>

App_MQTT_PublishRaw ==
    /\ Idle
    /\ mqtt.publishCount < MaxPublish
    /\ \E topic \in PubTopics, d \in PubData :
         /\ stack' = <<MQTT_PublishRaw_Frame(topic, d[1], d[2], 0, 0)>>
         /\ g' = GCall([op |-> "MQTT_PublishRaw", topic |-> topic, data |-> d[1],
                         before |-> mqtt])
    /\ UNCHANGED <<esp8266, huart, ret, mqtt>>

App_MQTT_PublishData ==
    /\ Idle
    /\ mqtt.publishCount < MaxPublish
    /\ \E topic \in PubTopics, d \in PubData :
         /\ stack' = <<MQTT_PublishData_Frame(topic, d[1], d[2], 0, 0)>>
         /\ g' = GCall([op |-> "MQTT_PublishData", topic |-> topic, data |-> d[1],
                         before |-> mqtt])
    /\ UNCHANGED <<esp8266, huart, ret, mqtt>>

MqttPubResponses == {RespOk, RespError, RespPrompt, RespMqttPubOk, RespMqttPubFail}
RxEventMqttPub == \E chunk \in MqttPubResponses : HAL_UARTEx_RxEventCallback(chunk)

\* Publishing, before and after the session is connected
NextPub ==
    \/ RxEventMqttPub
    \/ HAL_UART_TxCpltCallback
    \/ MQTT_Init
    \/ MQTT_SetOnPublishComplete
    \/ App_MQTT_Connect
    \/ App_MQTT_Publish
    \/ App_MQTT_PublishF
    \/ App_MQTT_PublishRaw
    \/ App_MQTT_PublishData
    \/ SendDMA_Entry
    \/ SendDMA_Claim
    \/ SendDMA_Done
    \/ SendCommand_Entry
    \/ SendCommand_Sent
    \/ SendCommand_Poll
    \/ SendCommand_Delay
    \/ MQTT_Connect_Entry
    \/ MQTT_Connect_Ret
    \/ MQTT_Publish_Entry
    \/ MQTT_Publish_Prompt
    \/ MQTT_Publish_Streamed
    \/ MQTT_Publish_Poll
    \/ MQTT_Publish_Delay
    \/ MQTT_PublishRaw_Entry
    \/ MQTT_PublishRaw_Prompt
    \/ MQTT_PublishRaw_Streamed
    \/ MQTT_PublishRaw_Poll
    \/ MQTT_PublishRaw_Delay
    \/ MQTT_PublishData_Entry
    \/ MQTT_PublishF_Entry

SpecPub == Init /\ [][NextPub]_vars

---------------------------------------------------------------------------
(* MQTT_ProcessData, MQTT_ParseSubMessage: the processing tick *)

RECURSIVE Repeat(_, _)
Repeat(c, n) ==
    IF n = 0 THEN ""
    ELSE IF n % 2 = 0 THEN LET half == Repeat(c, n \div 2) IN half \o half
    ELSE c \o Repeat(c, n - 1)

\* The line the module sends for a message of a subscribed topic
SubRecvLine(m) ==
    "+MQTTSUBRECV:" \o Itoa(MQTT_LINK_ID) \o ",\"" \o m.topic \o "\"," \o Itoa(m.len)
        \o "," \o m.payload \o "\r\n"

\* Messages the broker forwards: two short ones, and one whose payload is as long as
\* MQTT_Message_t.data
MsgHello == [topic |-> "t/1", len |-> 5, payload |-> "hello"]
MsgHi == [topic |-> "t/2", len |-> 2, payload |-> "hi"]
MsgFull == [topic |-> "t/3", len |-> MQTT_MESSAGE_MAX_LEN,
            payload |-> Repeat("x", MQTT_MESSAGE_MAX_LEN)]
Messages == {MsgHello, MsgHi, MsgFull}

RespMqttConnected == "+MQTTCONNECTED:0,1,\"broker\",\"1883\",\"\",1\r\n"
RespMqttDisconnected == "+MQTTDISCONNECTED:0\r\n"
RespWifiConnected == "WIFI CONNECTED\r\n"

\* What one receive event may hand to the MQTT tick: one line, or two lines that
\* arrived back to back before the line went idle
TickChunks ==
    {SubRecvLine(m) : m \in Messages}
    \cup {SubRecvLine(MsgHello) \o SubRecvLine(MsgHi)}
    \cup {RespMqttConnected, RespMqttDisconnected, RespOk}

RxEventTick == \E chunk \in TickChunks : HAL_UARTEx_RxEventCallback(chunk)

\* Lines 837-886: the MQTT_Message_t parsed out of `data`, ok = 0 where the function
\* returns MQTT_ERROR before it has a message. The text of msg.data is what memcpy
\* took up to the terminator of `data`.
MQTT_ParseSubMessage(data) ==
    LET none == [ok |-> 0, topic |-> "", dataLen |-> 0, data |-> ""]
        p0 == Find(data, "+MQTTSUBRECV:", 1)
    IN
    IF p0 = 0 THEN none
    ELSE LET c1 == Find(data, ",", p0 + 13) IN
         IF c1 = 0 THEN none
         ELSE LET p1 == c1 + 1
                  quoted == p1 <= Len(data) /\ SubSeq(data, p1, p1) = "\""
                  end == IF quoted THEN Find(data, "\"", p1 + 1) ELSE 0
                  len == IF end - (p1 + 1) >= MQTT_TOPIC_MAX_LEN
                         THEN MQTT_TOPIC_MAX_LEN - 1 ELSE end - (p1 + 1)
                  topic == IF end # 0 THEN SubSeq(data, p1 + 1, p1 + len) ELSE ""
                  p2 == IF end # 0 THEN end + 1 ELSE IF quoted THEN p1 + 1 ELSE p1
                  c2 == Find(data, ",", p2)
              IN
              IF c2 = 0 THEN none
              ELSE LET dataLen == atoi(data, c2 + 1) % 65536
                       c3 == Find(data, ",", c2 + 1)
                       copyLen == IF dataLen >= MQTT_MESSAGE_MAX_LEN
                                  THEN MQTT_MESSAGE_MAX_LEN - 1 ELSE dataLen
                   IN
                   IF c3 = 0 THEN none
                   ELSE [ok |-> 1, topic |-> topic, dataLen |-> dataLen,
                         data |-> SubSeq(data, c3 + 1, Min(c3 + copyLen, Len(data)))]

\* Lines 891-897: the message is counted and handed to the callback, if one is
\* registered.
Deliver(hg, msg) ==
    IF msg.ok = 0 THEN hg
    ELSE [h |-> [hg.h EXCEPT !.receiveCount = @ + 1],
          g |-> Invoke(hg.g, hg.h.onMessageReceived, "onMessageReceived",
                       [topic |-> msg.topic, dataLen |-> msg.dataLen, data |-> msg.data])]

\* Lines 910-913: a pending message is parsed and delivered.
ProcessPending(hg) ==
    IF hg.h.msgPending # 0
    THEN Deliver([hg EXCEPT !.h.msgPending = 0], MQTT_ParseSubMessage(hg.h.msgBuffer))
    ELSE hg

\* Lines 918-923: the disconnect event.
ProcessDisconnected(hg, respBuf) ==
    IF Contains(respBuf, "+MQTTDISCONNECTED:")
    THEN [h |-> [hg.h EXCEPT !.connected = 0, !.state = MQTT_STATE_DISCONNECTED],
          g |-> Invoke(hg.g, hg.h.onDisconnected, "onDisconnected", NULL)]
    ELSE hg

\* Lines 925-930: the connect event.
ProcessConnected(hg, respBuf) ==
    IF Contains(respBuf, "+MQTTCONNECTED:")
    THEN [h |-> [hg.h EXCEPT !.connected = 1, !.state = MQTT_STATE_CONNECTED],
          g |-> Invoke(hg.g, hg.h.onConnected, "onConnected", NULL)]
    ELSE hg

\* Lines 933-935: the message line.
ProcessSubRecv(hg, respBuf) ==
    IF Contains(respBuf, "+MQTTSUBRECV:")
    THEN Deliver(hg, MQTT_ParseSubMessage(respBuf))
    ELSE hg

\* Lines 905-936, with MQTT_ParseSubMessage's effects and the callbacks it invokes.
\* Neither rxComplete nor the buffer is touched.
MQTT_ProcessData ==
    /\ Idle
    /\ mqtt.receiveCount < MaxReceive
    /\ LET respBuf == esp8266.rxBuffer
           start == [h |-> mqtt,
                     g |-> [GCall([op |-> "MQTT_ProcessData", before |-> mqtt,
                                   respBuf |-> respBuf]) EXCEPT !.atReturn = TRUE]]
           end == IF mqtt.initialized = 0
                  THEN start
                  ELSE ProcessSubRecv(
                           ProcessConnected(
                               ProcessDisconnected(ProcessPending(start), respBuf),
                               respBuf),
                           respBuf)
       IN mqtt' = end.h /\ g' = end.g
    /\ UNCHANGED <<esp8266, huart, stack, ret>>

\* Lines 787-790.
MQTT_SetOnDisconnected ==
    /\ Idle
    /\ \E cb \in {NULL, "OnMQTTDisconnected"} : mqtt' = [mqtt EXCEPT !.onDisconnected = cb]
    /\ UNCHANGED <<esp8266, huart, stack, ret, g>>

\* Lines 795-798.
MQTT_SetOnMessageReceived ==
    /\ Idle
    /\ \E cb \in {NULL, "OnMQTTMessageReceived"} :
         mqtt' = [mqtt EXCEPT !.onMessageReceived = cb]
    /\ UNCHANGED <<esp8266, huart, stack, ret, g>>

\* The main loop's MQTT tick: receive events, callback registration, MQTT_ProcessData
NextTick ==
    \/ RxEventTick
    \/ MQTT_Init
    \/ MQTT_SetOnConnected
    \/ MQTT_SetOnDisconnected
    \/ MQTT_SetOnMessageReceived
    \/ MQTT_ProcessData

SpecTick == Init /\ [][NextTick]_vars

---------------------------------------------------------------------------
(* MQTT_Disconnect, MQTT_Clean, MQTT_Reconnect, MQTT_QueryConnection *)

\* (MQTT_State_t)n: the enumerator of value n, or the number itself when none has it
StateOf(n) == IF n < Len(MQTT_States) THEN MQTT_States[n + 1] ELSE Itoa(n)

MQTT_Disconnect_Frame == [pc |-> "MDisc_entry"]
MQTT_Clean_Frame == [pc |-> "MClean_entry"]
MQTT_Reconnect_Frame == [pc |-> "MRec_entry"]
MQTT_QueryConnection_Frame == [pc |-> "MQry_entry"]
MQTT_SetUserConfigSimple_Frame(clientId, username, password) ==
    [pc |-> "MUcs_entry", clientId |-> clientId, username |-> username,
     password |-> password]

CleanCommand == "AT+MQTTCLEAN=" \o Itoa(MQTT_LINK_ID) \o "\r\n"

\* Lines 376-382.
MQTT_Disconnect_Entry ==
    /\ At("MDisc_entry")
    /\ IF mqtt.initialized = 0
       THEN /\ Return(MQTT_NOT_INITIALIZED)
            /\ g' = GReturn(g)
       ELSE /\ Call(SendCommandF_Frame("OK", MQTT_DEFAULT_TIMEOUT, CleanCommand),
                    "MDisc_ret")
            /\ UNCHANGED <<ret, g>>
    /\ UNCHANGED <<esp8266, huart, mqtt>>

\* Mutant: the subscription table is left as it was.
MQTT_Disconnect_Ret_KeepSubscriptions ==
    /\ At("MDisc_ret")
    /\ mqtt' = [mqtt EXCEPT !.connected = 0, !.state = MQTT_STATE_DISCONNECTED]
    /\ g' = GReturn(Invoke([g EXCEPT !.exchange = ret],
                           mqtt.onDisconnected, "onDisconnected", NULL))
    /\ Return(IF ret = ESP8266_OK THEN MQTT_OK ELSE MQTT_ERROR)
    /\ UNCHANGED <<esp8266, huart>>

\* Lines 384-394.
MQTT_Disconnect_Ret ==
    /\ At("MDisc_ret")
    /\ mqtt' = [mqtt EXCEPT !.connected = 0, !.state = MQTT_STATE_DISCONNECTED,
                            !.subscriptions = [i \in Slots |-> MQTT_NoSubscription],
                            !.subscriptionCount = 0]
    /\ g' = GReturn(Invoke([g EXCEPT !.exchange = ret],
                           mqtt.onDisconnected, "onDisconnected", NULL))
    /\ Return(IF ret = ESP8266_OK THEN MQTT_OK ELSE MQTT_ERROR)
    /\ UNCHANGED <<esp8266, huart>>

\* Lines 427-428.
MQTT_Clean_Entry ==
    /\ At("MClean_entry")
    /\ Call(SendCommandF_Frame("OK", MQTT_DEFAULT_TIMEOUT, CleanCommand), "MClean_ret")
    /\ UNCHANGED <<esp8266, huart, ret, mqtt, g>>

\* Lines 430-433: the subscription table is not touched.
MQTT_Clean_Ret ==
    /\ At("MClean_ret")
    /\ mqtt' = [mqtt EXCEPT !.connected = 0, !.state = MQTT_STATE_NOT_INIT]
    /\ g' = GReturn([g EXCEPT !.exchange = ret])
    /\ Return(IF ret = ESP8266_OK THEN MQTT_OK ELSE MQTT_ERROR)
    /\ UNCHANGED <<esp8266, huart>>

\* Lines 150-162.
MQTT_SetUserConfigSimple_Entry ==
    /\ At("MUcs_entry")
    /\ IF mqtt.initialized = 0
       THEN /\ Return(MQTT_NOT_INITIALIZED)
            /\ g' = GReturn(g)
       ELSE IF Top.clientId = NULL
       THEN /\ Return(MQTT_INVALID_PARAM)
            /\ g' = GReturn(g)
       ELSE /\ Call(SendCommandF_Frame("OK", MQTT_DEFAULT_TIMEOUT,
                       "AT+MQTTUSERCFG=" \o Itoa(MQTT_LINK_ID) \o "," \o Itoa(MQTT_SCHEME_TCP)
                         \o ",\"" \o Top.clientId
                         \o "\",\"" \o (IF Top.username # NULL THEN Top.username ELSE "")
                         \o "\",\"" \o (IF Top.password # NULL THEN Top.password ELSE "")
                         \o "\",0,0,\"\"\r\n"),
                    "MUcs_ret")
            /\ UNCHANGED <<ret, g>>
    /\ UNCHANGED <<esp8266, huart, mqtt>>

\* Lines 164-177.
MQTT_SetUserConfigSimple_Ret ==
    /\ At("MUcs_ret")
    /\ IF ret # ESP8266_OK
       THEN /\ Return(MQTT_ERROR)
            /\ UNCHANGED mqtt
       ELSE /\ mqtt' = [mqtt EXCEPT
                  !.userConfig.scheme = MQTT_SCHEME_TCP,
                  !.userConfig.clientId = Top.clientId,
                  !.userConfig.username = IF Top.username # NULL THEN Top.username ELSE @,
                  !.userConfig.password = IF Top.password # NULL THEN Top.password ELSE @,
                  !.state = MQTT_STATE_USER_SET]
            /\ Return(MQTT_OK)
    /\ g' = GReturn([g EXCEPT !.exchange = ret])
    /\ UNCHANGED <<esp8266, huart>>

\* Lines 404-407: the counter, then MQTT_Clean.
MQTT_Reconnect_Entry ==
    /\ At("MRec_entry")
    /\ mqtt' = [mqtt EXCEPT !.reconnectCount = @ + 1]
    /\ Call(MQTT_Clean_Frame, "MRec_cleaned")
    /\ UNCHANGED <<esp8266, huart, ret, g>>

\* Line 408: MQTT_Delay(1000); what MQTT_Clean returned is not looked at.
MQTT_Reconnect_Delay ==
    /\ At("MRec_cleaned")
    /\ Goto("MRec_delayed")
    /\ UNCHANGED <<esp8266, huart, ret, mqtt, g>>

\* Lines 411-414: the stored user configuration is sent again.
MQTT_Reconnect_Config ==
    /\ At("MRec_delayed")
    /\ Call(MQTT_SetUserConfigSimple_Frame(mqtt.userConfig.clientId,
                                           mqtt.userConfig.username,
                                           mqtt.userConfig.password),
            "MRec_configured")
    /\ UNCHANGED <<esp8266, huart, ret, mqtt, g>>

\* Lines 416-418: a failed configuration is returned, else MQTT_Connect's result is.
MQTT_Reconnect_Connect ==
    /\ At("MRec_configured")
    /\ IF ret # MQTT_OK
       THEN /\ Return(ret)
            /\ g' = GReturn(g)
       ELSE /\ SetTop(MQTT_Connect_Frame)
            /\ UNCHANGED <<ret, g>>
    /\ UNCHANGED <<esp8266, huart, mqtt>>

\* Line 753.
MQTT_QueryConnection_Entry ==
    /\ At("MQry_entry")
    /\ Call(SendCommand_Frame("AT+MQTTCONN?\r\n", "OK", MQTT_DEFAULT_TIMEOUT), "MQry_ret")
    /\ UNCHANGED <<esp8266, huart, ret, mqtt, g>>

\* Lines 760-767: the number after the link id of the buffer's +MQTTCONN: line;
\* found = FALSE when the buffer has no such line or no comma after the link id.
ReportedState(buf) ==
    LET p0 == Find(buf, "+MQTTCONN:", 1)
        comma == IF p0 = 0 THEN 0 ELSE Find(buf, ",", p0 + 10)
    IN [found |-> comma # 0, state |-> IF comma = 0 THEN 0 ELSE atoi(buf, comma + 1)]

\* Mutant: the reported state is stored but the connected flag is left alone.
MQTT_QueryConnection_Ret_KeepFlag ==
    /\ At("MQry_ret")
    /\ IF ret # ESP8266_OK
       THEN /\ Return(MQTT_ERROR)
            /\ g' = GReturn([g EXCEPT !.exchange = ret])
            /\ UNCHANGED mqtt
       ELSE LET reported == ReportedState(esp8266.rxBuffer) IN
            /\ mqtt' = IF ~reported.found THEN mqtt
                       ELSE [mqtt EXCEPT !.state = StateOf(reported.state)]
            /\ g' = GReturn([g EXCEPT !.exchange = ret, !.out = esp8266.rxBuffer])
            /\ Return(MQTT_OK)
    /\ UNCHANGED <<esp8266, huart>>

\* Lines 755-773.
MQTT_QueryConnection_Ret ==
    /\ At("MQry_ret")
    /\ IF ret # ESP8266_OK
       THEN /\ Return(MQTT_ERROR)
            /\ g' = GReturn([g EXCEPT !.exchange = ret])
            /\ UNCHANGED mqtt
       ELSE LET reported == ReportedState(esp8266.rxBuffer) IN
            /\ mqtt' = IF ~reported.found THEN mqtt
                       ELSE [mqtt EXCEPT !.state = StateOf(reported.state),
                                         !.connected = IF reported.state >= 4 THEN 1 ELSE 0]
            /\ g' = GReturn([g EXCEPT !.exchange = ret, !.out = esp8266.rxBuffer])
            /\ Return(MQTT_OK)
    /\ UNCHANGED <<esp8266, huart>>

App_MQTT_Disconnect ==
    /\ Idle
    /\ stack' = <<MQTT_Disconnect_Frame>>
    /\ g' = GCall([op |-> "MQTT_Disconnect", before |-> mqtt])
    /\ UNCHANGED <<esp8266, huart, ret, mqtt>>

App_MQTT_Clean ==
    /\ Idle
    /\ stack' = <<MQTT_Clean_Frame>>
    /\ g' = GCall([op |-> "MQTT_Clean", before |-> mqtt])
    /\ UNCHANGED <<esp8266, huart, ret, mqtt>>

App_MQTT_Reconnect ==
    /\ Idle
    /\ mqtt.reconnectCount < MaxReconnect
    /\ stack' = <<MQTT_Reconnect_Frame>>
    /\ g' = GCall([op |-> "MQTT_Reconnect", before |-> mqtt])
    /\ UNCHANGED <<esp8266, huart, ret, mqtt>>

App_MQTT_QueryConnection ==
    /\ Idle
    /\ stack' = <<MQTT_QueryConnection_Frame>>
    /\ g' = GCall([op |-> "MQTT_QueryConnection", before |-> mqtt])
    /\ UNCHANGED <<esp8266, huart, ret, mqtt>>

\* The answer to AT+MQTTCONN? of a module whose link is in state s
RespMqttConn(s) ==
    "+MQTTCONN:" \o Itoa(MQTT_LINK_ID) \o "," \o Itoa(s)
        \o ",1,\"broker\",\"1883\",\"\",1\r\n\r\nOK\r\n"
QueryStates == {0, 3, 4, 6}
MqttSessionResponses == {RespOk, RespError} \cup {RespMqttConn(s) : s \in QueryStates}
RxEventMqttSession == \E chunk \in MqttSessionResponses : HAL_UARTEx_RxEventCallback(chunk)

\* A session that was configured and connected, with n subscriptions
MQTT_Session(n) ==
    [MQTT_Subscribed(n) EXCEPT !.userConfig.clientId = "stm32",
                               !.brokerConfig.host = "broker"]

InitSession ==
    /\ esp8266 = [txBusy |-> 0, rxBuffer |-> "", rxLength |-> 0, rxComplete |-> 0,
                  wifiConnected |-> 0, multiConnMode |-> 0, transparentMode |-> 0,
                  serverStarted |-> 0, initialized |-> 1,
                  ip |-> "", onDataReceived |-> NULL,
                  onWifiConnected |-> NULL, onWifiDisconnected |-> NULL]
    /\ huart = "READY"
    /\ stack = <<>>
    /\ ret = ESP8266_OK
    /\ mqtt \in {MQTT_Zero, MQTT_Session(0), MQTT_Session(SessionTopics)}
    /\ g = GInit

\* Disconnecting and polling the connection
NextSession ==
    \/ RxEventMqttSession
    \/ HAL_UART_TxCpltCallback
    \/ MQTT_SetOnDisconnected
    \/ App_MQTT_Disconnect
    \/ App_MQTT_QueryConnection
    \/ SendDMA_Entry
    \/ SendDMA_Claim
    \/ SendDMA_Done
    \/ SendCommand_Entry
    \/ SendCommand_Sent
    \/ SendCommand_Poll
    \/ SendCommand_Delay
    \/ MQTT_Disconnect_Entry
    \/ MQTT_Disconnect_Ret
    \/ MQTT_QueryConnection_Entry
    \/ MQTT_QueryConnection_Ret

SpecSession == InitSession /\ [][NextSession]_vars

\* Cleaning and reconnecting
NextReconnect ==
    \/ RxEventMqttSub
    \/ HAL_UART_TxCpltCallback
    \/ App_MQTT_Clean
    \/ App_MQTT_Reconnect
    \/ SendDMA_Entry
    \/ SendDMA_Claim
    \/ SendDMA_Done
    \/ SendCommand_Entry
    \/ SendCommand_Sent
    \/ SendCommand_Poll
    \/ SendCommand_Delay
    \/ MQTT_Clean_Entry
    \/ MQTT_Clean_Ret
    \/ MQTT_SetUserConfigSimple_Entry
    \/ MQTT_SetUserConfigSimple_Ret
    \/ MQTT_Reconnect_Entry
    \/ MQTT_Reconnect_Delay
    \/ MQTT_Reconnect_Config
    \/ MQTT_Reconnect_Connect
    \/ MQTT_Connect_Entry
    \/ MQTT_Connect_Ret

SpecReconnect == InitSession /\ [][NextReconnect]_vars

---------------------------------------------------------------------------
(* MQTT_SetUserConfig, MQTT_SetConnConfig, MQTT_SetKeepAlive, MQTT_SetLWT,
   MQTT_SetBrokerConfig *)

\* A pointer to a configuration structure: the empty tuple for NULL, else the tuple of
\* the structure pointed to
NullConfig == <<>>
PointerTo(config) == <<config>>

\* The value of an enumerator of MQTT_State_t
StateOrd(s) == (CHOOSE i \in 1..Len(MQTT_States) : MQTT_States[i] = s) - 1

MQTT_SetUserConfig_Frame(config) == [pc |-> "MUc_entry", config |-> config]
MQTT_SetConnConfig_Frame(config) == [pc |-> "MCc_entry", config |-> config]
MQTT_SetKeepAlive_Frame(keepAlive) == [pc |-> "MKa_entry", keepAlive |-> keepAlive]
MQTT_SetLWT_Frame(topic, message, qos, retain) ==
    [pc |-> "MLwt_entry", topic |-> topic, message |-> message, qos |-> qos,
     retain |-> retain]

\* Lines 109-124.
MQTT_SetUserConfig_Entry ==
    /\ At("MUc_entry")
    /\ IF mqtt.initialized = 0
       THEN /\ Return(MQTT_NOT_INITIALIZED)
            /\ g' = GReturn(g)
       ELSE IF Top.config = NullConfig
       THEN /\ Return(MQTT_INVALID_PARAM)
            /\ g' = GReturn(g)
       ELSE /\ Call(SendCommandF_Frame("OK", MQTT_DEFAULT_TIMEOUT,
                       "AT+MQTTUSERCFG=" \o Itoa(MQTT_LINK_ID)
                         \o "," \o Itoa(Top.config[1].scheme)
                         \o ",\"" \o Top.config[1].clientId
                         \o "\",\"" \o Top.config[1].username
                         \o "\",\"" \o Top.config[1].password
                         \o "\"," \o Itoa(Top.config[1].certKeyId)
                         \o "," \o Itoa(Top.config[1].caId)
                         \o ",\"" \o Top.config[1].path \o "\"\r\n"),
                    "MUc_ret")
            /\ UNCHANGED <<ret, g>>
    /\ UNCHANGED <<esp8266, huart, mqtt>>

\* Lines 126-136.
MQTT_SetUserConfig_Ret ==
    /\ At("MUc_ret")
    /\ IF ret # ESP8266_OK
       THEN /\ Return(MQTT_ERROR)
            /\ UNCHANGED mqtt
       ELSE /\ mqtt' = [mqtt EXCEPT !.userConfig = Top.config[1],
                                    !.state = MQTT_STATE_USER_SET]
            /\ Return(MQTT_OK)
    /\ g' = GReturn([g EXCEPT !.exchange = ret])
    /\ UNCHANGED <<esp8266, huart>>

\* Lines 187-201.
MQTT_SetConnConfig_Entry ==
    /\ At("MCc_entry")
    /\ IF mqtt.initialized = 0
       THEN /\ Return(MQTT_NOT_INITIALIZED)
            /\ g' = GReturn(g)
       ELSE IF Top.config = NullConfig
       THEN /\ Return(MQTT_INVALID_PARAM)
            /\ g' = GReturn(g)
       ELSE /\ Call(SendCommandF_Frame("OK", MQTT_DEFAULT_TIMEOUT,
                       "AT+MQTTCONNCFG=" \o Itoa(MQTT_LINK_ID)
                         \o "," \o Itoa(Top.config[1].keepAlive)
                         \o "," \o Itoa(Top.config[1].disableCleanSession)
                         \o ",\"" \o Top.config[1].lwtTopic
                         \o "\",\"" \o Top.config[1].lwtMessage
                         \o "\"," \o Itoa(Top.config[1].lwtQos)
                         \o "," \o Itoa(Top.config[1].lwtRetain) \o "\r\n"),
                    "MCc_ret")
            /\ UNCHANGED <<ret, g>>
    /\ UNCHANGED <<esp8266, huart, mqtt>>

\* Lines 203-213.
MQTT_SetConnConfig_Ret ==
    /\ At("MCc_ret")
    /\ IF ret # ESP8266_OK
       THEN /\ Return(MQTT_ERROR)
            /\ UNCHANGED mqtt
       ELSE /\ mqtt' = [mqtt EXCEPT !.connConfig = Top.config[1],
                                    !.state = MQTT_STATE_CONN_SET]
            /\ Return(MQTT_OK)
    /\ g' = GReturn([g EXCEPT !.exchange = ret])
    /\ UNCHANGED <<esp8266, huart>>

\* Lines 223-232: the interval is stored first; once the user configuration has been
\* set, the stored connection configuration is sent by MQTT_SetConnConfig.
MQTT_SetKeepAlive_Entry ==
    /\ At("MKa_entry")
    /\ LET keepAlive == IF Top.keepAlive > 7200 THEN 7200 ELSE Top.keepAlive
           stored == [mqtt EXCEPT !.connConfig.keepAlive = keepAlive]
       IN /\ mqtt' = stored
          /\ IF StateOrd(mqtt.state) >= StateOrd(MQTT_STATE_USER_SET)
             THEN /\ SetTop(MQTT_SetConnConfig_Frame(PointerTo(stored.connConfig)))
                  /\ UNCHANGED <<ret, g>>
             ELSE /\ Return(MQTT_OK)
                  /\ g' = GReturn(g)
    /\ UNCHANGED <<esp8266, huart>>

\* Lines 246-258: likewise for the last will.
MQTT_SetLWT_Entry ==
    /\ At("MLwt_entry")
    /\ IF Top.topic = NULL \/ Top.message = NULL
       THEN /\ Return(MQTT_INVALID_PARAM)
            /\ g' = GReturn(g)
            /\ UNCHANGED mqtt
       ELSE LET stored ==
                  [mqtt EXCEPT
                     !.connConfig.lwtTopic = strncpy(Top.topic, MQTT_TOPIC_MAX_LEN - 1),
                     !.connConfig.lwtMessage = strncpy(Top.message, MQTT_MESSAGE_MAX_LEN - 1),
                     !.connConfig.lwtQos = Top.qos,
                     !.connConfig.lwtRetain = IF Top.retain # 0 THEN 1 ELSE 0]
            IN /\ mqtt' = stored
               /\ IF StateOrd(mqtt.state) >= StateOrd(MQTT_STATE_USER_SET)
                  THEN /\ SetTop(MQTT_SetConnConfig_Frame(PointerTo(stored.connConfig)))
                       /\ UNCHANGED <<ret, g>>
                  ELSE /\ Return(MQTT_OK)
                       /\ g' = GReturn(g)
    /\ UNCHANGED <<esp8266, huart>>

\* What the application configures
UserConfigs ==
    {[scheme |-> MQTT_SCHEME_TCP, clientId |-> "stm32", username |-> "u",
      password |-> "p", certKeyId |-> 0, caId |-> 0, path |-> ""]}
ConnConfigs ==
    {[keepAlive |-> 60, disableCleanSession |-> 0, lwtTopic |-> "lwt",
      lwtMessage |-> "bye", lwtQos |-> 1, lwtRetain |-> 0]}
KeepAlives == {120, 7201}
BrokerConfigs == {[host |-> "broker", port |-> MQTT_DEFAULT_PORT, reconnect |-> 0]}

\* Lines 266-272.
MQTT_SetBrokerConfig ==
    /\ Idle
    /\ \E config \in {NullConfig} \cup {PointerTo(c) : c \in BrokerConfigs} :
         /\ mqtt' = IF config = NullConfig THEN mqtt
                    ELSE [mqtt EXCEPT !.brokerConfig = config[1]]
         /\ ret' = IF config = NullConfig THEN MQTT_INVALID_PARAM ELSE MQTT_OK
         /\ g' = [GCall([op |-> "MQTT_SetBrokerConfig", before |-> mqtt, config |-> config])
                    EXCEPT !.atReturn = TRUE]
    /\ UNCHANGED <<esp8266, huart, stack>>

App_MQTT_SetUserConfig ==
    /\ Idle
    /\ \E config \in {NullConfig} \cup {PointerTo(c) : c \in UserConfigs} :
         stack' = <<MQTT_SetUserConfig_Frame(config)>>
    /\ g' = GCall([op |-> "MQTT_SetUserConfig", before |-> mqtt])
    /\ UNCHANGED <<esp8266, huart, ret, mqtt>>

App_MQTT_SetConnConfig ==
    /\ Idle
    /\ \E config \in {NullConfig} \cup {PointerTo(c) : c \in ConnConfigs} :
         stack' = <<MQTT_SetConnConfig_Frame(config)>>
    /\ g' = GCall([op |-> "MQTT_SetConnConfig", before |-> mqtt])
    /\ UNCHANGED <<esp8266, huart, ret, mqtt>>

App_MQTT_SetKeepAlive ==
    /\ Idle
    /\ \E keepAlive \in KeepAlives : stack' = <<MQTT_SetKeepAlive_Frame(keepAlive)>>
    /\ g' = GCall([op |-> "MQTT_SetKeepAlive", before |-> mqtt])
    /\ UNCHANGED <<esp8266, huart, ret, mqtt>>

App_MQTT_SetLWT ==
    /\ Idle
    /\ \E topic \in {NULL, "will"}, retain \in {0, 2} :
         stack' = <<MQTT_SetLWT_Frame(topic, "gone", 1, retain)>>
    /\ g' = GCall([op |-> "MQTT_SetLWT", before |-> mqtt])
    /\ UNCHANGED <<esp8266, huart, ret, mqtt>>

\* Configuring the client
NextConfig ==
    \/ RxEventMqttSub
    \/ HAL_UART_TxCpltCallback
    \/ MQTT_Init
    \/ MQTT_SetBroker
    \/ MQTT_SetBrokerConfig
    \/ App_MQTT_SetUserConfig
    \/ App_MQTT_SetConnConfig
    \/ App_MQTT_SetKeepAlive
    \/ App_MQTT_SetLWT
    \/ SendDMA_Entry
    \/ SendDMA_Claim
    \/ SendDMA_Done
    \/ SendCommand_Entry
    \/ SendCommand_Sent
    \/ SendCommand_Poll
    \/ SendCommand_Delay
    \/ MQTT_SetUserConfig_Entry
    \/ MQTT_SetUserConfig_Ret
    \/ MQTT_SetConnConfig_Entry
    \/ MQTT_SetConnConfig_Ret
    \/ MQTT_SetKeepAlive_Entry
    \/ MQTT_SetLWT_Entry

SpecConfig == Init /\ [][NextConfig]_vars

---------------------------------------------------------------------------
(* The processing tick: ESP8266_ProcessData and MQTT_ProcessData *)

\* What a receive event may leave for the tick: one unsolicited line, or a line and
\* its successor in one chunk
LoopChunks ==
    {RespWifiConnected, RespWifiDisconnect, RespMqttConnected, RespMqttDisconnected,
     RespIpd, RespOk,
     RespWifiDisconnect \o RespWifiConnected, RespMqttDisconnected \o RespMqttConnected}

RxEventLoop == \E chunk \in LoopChunks : HAL_UARTEx_RxEventCallback(chunk)

\* The main loop calling the two tick functions, between receive events and callback
\* registrations
NextLoop ==
    \/ RxEventLoop
    \/ MQTT_Init
    \/ MQTT_SetOnConnected
    \/ MQTT_SetOnDisconnected
    \/ ESP8266_SetOnDataReceived
    \/ ESP8266_SetOnWifiConnected
    \/ ESP8266_SetOnWifiDisconnected
    \/ ESP8266_ProcessData
    \/ MQTT_ProcessData

SpecLoop == Init /\ [][NextLoop]_vars

---------------------------------------------------------------------------
(* Termination: the operations under a scheduler that keeps running the thread *)

\* A step of the application thread inside a call: the function on top of the stack
\* advances. A delay step is the tick advancing past the delay's end.
ThreadStep ==
    \/ SendDMA_Entry
    \/ SendDMA_Claim
    \/ SendDMA_Done
    \/ SendCommand_Entry
    \/ SendCommand_Sent
    \/ SendCommand_Poll
    \/ SendCommand_Delay
    \/ Send_Entry
    \/ Send_Prompt
    \/ Send_Streamed
    \/ Send_Poll
    \/ Send_Delay
    \/ ExitTransparent_Entry
    \/ ExitTransparent_Escape
    \/ ExitTransparent_Escaped
    \/ ExitTransparent_Guard
    \/ ExitTransparent_Ret
    \/ MQTT_Clean_Entry
    \/ MQTT_Clean_Ret
    \/ MQTT_SetUserConfigSimple_Entry
    \/ MQTT_SetUserConfigSimple_Ret
    \/ MQTT_Reconnect_Entry
    \/ MQTT_Reconnect_Delay
    \/ MQTT_Reconnect_Config
    \/ MQTT_Reconnect_Connect
    \/ MQTT_Connect_Entry
    \/ MQTT_Connect_Ret
    \/ MQTT_Publish_Entry
    \/ MQTT_Publish_Prompt
    \/ MQTT_Publish_Streamed
    \/ MQTT_Publish_Poll
    \/ MQTT_Publish_Delay

\* The application calls one of the operations.
LiveCalls ==
    {SendCommand_Frame("AT\r\n", "OK", ESP8266_DEFAULT_TIMEOUT),
     Send_Frame(0, "hello", 5),
     ExitTransparent_Frame,
     MQTT_Reconnect_Frame,
     MQTT_Publish_Frame("t", "hello", 0, 0)}

App_Call ==
    /\ Idle
    /\ mqtt.reconnectCount < MaxReconnect
    /\ mqtt.publishCount < MaxPublish
    /\ \E frame \in LiveCalls :
         /\ stack' = <<frame>>
         /\ g' = GCall([op |-> frame.pc, before |-> mqtt])
    /\ UNCHANGED <<esp8266, huart, ret, mqtt>>

LiveResponses == {RespOk, RespPrompt, RespMqttPubOk}
RxEventLive == \E chunk \in LiveResponses : HAL_UARTEx_RxEventCallback(chunk)

InitLive ==
    /\ esp8266 = [txBusy |-> 0, rxBuffer |-> "", rxLength |-> 0, rxComplete |-> 0,
                  wifiConnected |-> 0, multiConnMode |-> 0, transparentMode |-> 0,
                  serverStarted |-> 0, initialized |-> 1,
                  ip |-> "", onDataReceived |-> NULL,
                  onWifiConnected |-> NULL, onWifiDisconnected |-> NULL]
    /\ huart = "READY"
    /\ stack = <<>>
    /\ ret = ESP8266_OK
    /\ mqtt = MQTT_Session(0)
    /\ g = GInit

\* The calls and what the interrupts may do meanwhile
NextLive ==
    \/ RxEventLive
    \/ HAL_UART_TxCpltCallback
    \/ App_Call
    \/ ThreadStep

\* The thread is scheduled and the tick advances: a step of the running call that
\* stays possible is eventually taken. Nothing is assumed of the interrupts.
SpecLive == InitLive /\ [][NextLive]_vars /\ WF_vars(ThreadStep)

---------------------------------------------------------------------------
(* The example application: its callbacks and MQTT_Example_MainLoop
   (Core/Src/esp8266_mqtt_example.c) *)

MQTT_TOPIC_CONTROL == "stm32/control"
MQTT_TOPIC_STATUS == "stm32/status"

OnMQTTConnected_Frame == [pc |-> "OC_entry"]
OnMQTTMessageReceived_Frame(message) == [pc |-> "OM_entry", message |-> message]

\* Line 53: the callback subscribes the control topic.
OnMQTTConnected_Subscribe ==
    /\ At("OC_entry")
    /\ Call(MQTT_Subscribe_Frame(MQTT_TOPIC_CONTROL, 1), "OC_publish")
    /\ UNCHANGED <<esp8266, huart, ret, mqtt, g>>

\* Line 56: then it publishes the status, and returns.
OnMQTTConnected_Publish ==
    /\ At("OC_publish")
    /\ SetTop(MQTT_Publish_Frame(MQTT_TOPIC_STATUS, "online", 1, 1))
    /\ UNCHANGED <<esp8266, huart, ret, mqtt, g>>

\* Lines 75-99: a get_status command on the control topic is answered by a
\* publication.
OnMQTTMessageReceived ==
    /\ At("OM_entry")
    /\ IF /\ Top.message.topic = MQTT_TOPIC_CONTROL
          /\ ~Contains(Top.message.data, "\"cmd\":\"led_on\"")
          /\ ~Contains(Top.message.data, "\"cmd\":\"led_off\"")
          /\ Contains(Top.message.data, "\"cmd\":\"get_status\"")
       THEN /\ SetTop(MQTT_Publish_Frame(MQTT_TOPIC_STATUS, "{\"status\":\"running\"}", 0, 0))
            /\ UNCHANGED ret
       ELSE Return(ret)
    /\ UNCHANGED <<esp8266, huart, mqtt, g>>

\* esp8266_mqtt.c lines 325-339, with the example's callback run: after a successful
\* connect the registered onConnected is called before MQTT_Connect returns.
MQTT_Connect_Callback ==
    /\ At("MConn_ret")
    /\ IF ret # ESP8266_OK
       THEN /\ mqtt' = [mqtt EXCEPT !.connected = 0, !.state = MQTT_STATE_DISCONNECTED]
            /\ g' = GReturn(Invoke([g EXCEPT !.exchange = ret],
                                   mqtt.onError, "onError", MQTT_CONNECT_FAIL))
            /\ Return(MQTT_CONNECT_FAIL)
       ELSE /\ mqtt' = [mqtt EXCEPT !.connected = 1, !.state = MQTT_STATE_CONN_NO_SUB]
            /\ g' = Invoke([g EXCEPT !.exchange = ret], mqtt.onConnected, "onConnected", NULL)
            /\ IF mqtt.onConnected # NULL
               THEN Call(OnMQTTConnected_Frame, "MConn_done")
               ELSE Goto("MConn_done")
            /\ UNCHANGED ret
    /\ UNCHANGED <<esp8266, huart>>

\* esp8266_mqtt.c line 339.
MQTT_Connect_Done ==
    /\ At("MConn_done")
    /\ Return(MQTT_OK)
    /\ g' = GReturn(g)
    /\ UNCHANGED <<esp8266, huart, mqtt>>

\* Mutant: the tick is run from an interrupt, on top of the call in progress.
Example_MQTT_ProcessData_Preempting ==
    /\ mqtt.publishCount < MaxPublish
    /\ mqtt.receiveCount < MaxReceive
    /\ stack' = <<[pc |-> "MPD_entry"]>> \o stack
    /\ g' = IF Idle THEN GCall([op |-> "MQTT_ProcessData"]) ELSE g
    /\ UNCHANGED <<esp8266, huart, ret, mqtt>>

\* esp8266_mqtt_example.c line 261: the main loop, between two calls, runs the
\* client's processing tick.
Example_MQTT_ProcessData ==
    /\ Idle
    /\ mqtt.publishCount < MaxPublish
    /\ mqtt.receiveCount < MaxReceive
    /\ stack' = <<[pc |-> "MPD_entry"]>> \o stack
    /\ g' = IF Idle THEN GCall([op |-> "MQTT_ProcessData"]) ELSE g
    /\ UNCHANGED <<esp8266, huart, ret, mqtt>>

\* esp8266_mqtt.c lines 907-923: MQTT_ProcessData up to the disconnect event
\* (msgPending is never set). OnMQTTDisconnected only prints.
MQTT_ProcessData_Disconnected ==
    /\ At("MPD_entry")
    /\ IF mqtt.initialized = 0
       THEN /\ Return(ret)
            /\ g' = GReturn(g)
            /\ UNCHANGED mqtt
       ELSE /\ Goto("MPD_conn")
            /\ IF Contains(esp8266.rxBuffer, "+MQTTDISCONNECTED:")
               THEN /\ mqtt' = [mqtt EXCEPT !.connected = 0,
                                            !.state = MQTT_STATE_DISCONNECTED]
                    /\ g' = Invoke(g, mqtt.onDisconnected, "onDisconnected", NULL)
               ELSE UNCHANGED <<mqtt, g>>
    /\ UNCHANGED <<esp8266, huart, ret>>

\* esp8266_mqtt.c lines 925-930: the connect event, with the callback run.
MQTT_ProcessData_Connected ==
    /\ At("MPD_conn")
    /\ IF Contains(esp8266.rxBuffer, "+MQTTCONNECTED:")
       THEN /\ mqtt' = [mqtt EXCEPT !.connected = 1, !.state = MQTT_STATE_CONNECTED]
            /\ g' = Invoke(g, mqtt.onConnected, "onConnected", NULL)
            /\ IF mqtt.onConnected # NULL
               THEN Call(OnMQTTConnected_Frame, "MPD_sub")
               ELSE Goto("MPD_sub")
       ELSE /\ Goto("MPD_sub")
            /\ UNCHANGED <<mqtt, g>>
    /\ UNCHANGED <<esp8266, huart, ret>>

\* esp8266_mqtt.c lines 933-935: the message line, looked for in the buffer as it is
\* now, with the callback run.
MQTT_ProcessData_Message ==
    /\ At("MPD_sub")
    /\ LET msg == IF Contains(esp8266.rxBuffer, "+MQTTSUBRECV:")
                  THEN MQTT_ParseSubMessage(esp8266.rxBuffer)
                  ELSE [ok |-> 0]
           delivered == Deliver([h |-> mqtt, g |-> g], msg)
       IN IF msg.ok = 0
          THEN /\ Goto("MPD_ret")
               /\ UNCHANGED <<mqtt, g>>
          ELSE /\ mqtt' = delivered.h
               /\ g' = delivered.g
               /\ IF mqtt.onMessageReceived # NULL
                  THEN Call(OnMQTTMessageReceived_Frame(
                                [topic |-> msg.topic, dataLen |-> msg.dataLen,
                                 data |-> msg.data]), "MPD_ret")
                  ELSE Goto("MPD_ret")
    /\ UNCHANGED <<esp8266, huart, ret>>

\* esp8266_mqtt.c line 936.
MQTT_ProcessData_Ret ==
    /\ At("MPD_ret")
    /\ Return(ret)
    /\ g' = GReturn(g)
    /\ UNCHANGED <<esp8266, huart, mqtt>>

MsgGetStatus ==
    [topic |-> MQTT_TOPIC_CONTROL, len |-> 20, payload |-> "{\"cmd\":\"get_status\"}"]

ExampleChunks ==
    {RespOk, RespPrompt, RespMqttConnected, SubRecvLine(MsgGetStatus)}
RxEventExample == \E chunk \in ExampleChunks : HAL_UARTEx_RxEventCallback(chunk)

\* The example with its callbacks registered (lines 138-142) and the client
\* configured (lines 179-198), before it connects (line 201).
InitExample ==
    /\ esp8266 = [txBusy |-> 0, rxBuffer |-> "", rxLength |-> 0, rxComplete |-> 0,
                  wifiConnected |-> 1, multiConnMode |-> 0, transparentMode |-> 0,
                  serverStarted |-> 0, initialized |-> 1,
                  ip |-> "", onDataReceived |-> NULL,
                  onWifiConnected |-> NULL, onWifiDisconnected |-> NULL]
    /\ huart = "READY"
    /\ stack = <<>>
    /\ ret = ESP8266_OK
    /\ mqtt = [MQTT_Session(0) EXCEPT
                  !.connected = 0, !.state = MQTT_STATE_CONN_SET,
                  !.onConnected = "OnMQTTConnected",
                  !.onDisconnected = "OnMQTTDisconnected",
                  !.onMessageReceived = "OnMQTTMessageReceived",
                  !.onPublishComplete = "OnMQTTPublishComplete",
                  !.onError = "OnMQTTError"]
    /\ g = GInit

\* esp8266_mqtt_example.c line 201: the application connects a client that is not
\* connected.
Example_MQTT_Connect ==
    /\ Idle
    /\ mqtt.connected = 0
    /\ mqtt.publishCount < MaxPublish
    /\ stack' = <<MQTT_Connect_Frame>>
    /\ g' = GCall([op |-> "MQTT_Connect"])
    /\ UNCHANGED <<esp8266, huart, ret, mqtt>>

NextExample ==
    \/ RxEventExample
    \/ HAL_UART_TxCpltCallback
    \/ Example_MQTT_Connect
    \/ Example_MQTT_ProcessData
    \/ MQTT_ProcessData_Disconnected
    \/ MQTT_ProcessData_Connected
    \/ MQTT_ProcessData_Message
    \/ MQTT_ProcessData_Ret
    \/ OnMQTTConnected_Subscribe
    \/ OnMQTTConnected_Publish
    \/ OnMQTTMessageReceived
    \/ SendDMA_Entry
    \/ SendDMA_Claim
    \/ SendDMA_Done
    \/ SendCommand_Entry
    \/ SendCommand_Sent
    \/ SendCommand_Poll
    \/ SendCommand_Delay
    \/ MQTT_Subscribe_Entry
    \/ MQTT_Subscribe_Ret
    \/ MQTT_Publish_Entry
    \/ MQTT_Publish_Prompt
    \/ MQTT_Publish_Streamed
    \/ MQTT_Publish_Poll
    \/ MQTT_Publish_Delay
    \/ MQTT_Connect_Entry
    \/ MQTT_Connect_Callback
    \/ MQTT_Connect_Done

SpecExample == InitExample /\ [][NextExample]_vars

---------------------------------------------------------------------------
(* The receive handlers and the size of what arrives (esp8266.c lines 70-94) *)

\* ESP8266_UART_IdleCallback with len bytes in the DMA target (line 74): a length
\* from 1 to the buffer's size less one is handed over as by the receive event
\* (lines 76-79); any other is dropped, and the receive is re-armed (line 81).
ESP8266_UART_IdleCallback(chunk) ==
    IF Len(chunk) > 0 /\ Len(chunk) < ESP8266_RX_BUF_SIZE
    THEN HAL_UARTEx_RxEventCallback(chunk)
    ELSE /\ g' = [GForget(g) EXCEPT !.atReturn = FALSE, !.lastChunk = chunk]
         /\ UNCHANGED <<esp8266, huart, stack, ret, mqtt>>

\* What fills the DMA target but for one byte, and what fills it
ChunkAlmostFull == Repeat("x", ESP8266_RX_BUF_SIZE - 1)
ChunkFull == Repeat("x", ESP8266_RX_BUF_SIZE)

RxChunks == {RespOk, RespIpd, RespWifiConnected, RespWifiDisconnect,
             ChunkAlmostFull, ChunkFull}

RxEventRx == \E chunk \in RxChunks : HAL_UARTEx_RxEventCallback(chunk)
IdleEventRx == \E chunk \in RxChunks : ESP8266_UART_IdleCallback(chunk)

\* The receive handlers, the callback registrations and the engine's tick
NextRx ==
    \/ RxEventRx
    \/ IdleEventRx
    \/ ESP8266_SetOnDataReceived
    \/ ESP8266_SetOnWifiConnected
    \/ ESP8266_SetOnWifiDisconnected
    \/ ESP8266_ProcessData

SpecRx == Init /\ [][NextRx]_vars

---------------------------------------------------------------------------
(* The readers of the receive buffer, store by store (esp8266.c lines 465-482): no
   reader masks the receive interrupt, which copies straight into rxBuffer *)

ClearBuffer_Frame == [pc |-> "CB_entry"]
ContainsString_Frame(str) == [pc |-> "CS_entry", str |-> str, seen |-> ""]

\* What a scan or a memset that has run over the first k bytes of `old` meets when
\* the interrupt replaces the buffer by `new` under it
Mixes(old, new) ==
    IF old = new THEN {new}
    ELSE {SubSeq(old, 1, k) \o SubSeq(new, k + 1, Len(new)) : k \in 0..Len(old)}

\* Line 466: memset begins.
ClearBuffer_Entry ==
    /\ At("CB_entry")
    /\ Goto("CB_memset")
    /\ g' = GClear(g)
    /\ UNCHANGED <<esp8266, huart, ret, mqtt>>

\* Line 466: memset ends. The bytes a receive event stored behind memset's position
\* are zeroed, the ones it stored ahead of it stay.
ClearBuffer_Memset ==
    /\ At("CB_memset")
    /\ Goto("CB_length")
    /\ \E left \in Mixes(IF g.lastChunk = NoChunk THEN "" ELSE esp8266.rxBuffer, "") :
         esp8266' = [esp8266 EXCEPT !.rxBuffer = left]
    /\ UNCHANGED <<huart, ret, mqtt, g>>

\* Line 467.
ClearBuffer_Length ==
    /\ At("CB_length")
    /\ Goto("CB_flag")
    /\ esp8266' = [esp8266 EXCEPT !.rxLength = 0]
    /\ UNCHANGED <<huart, ret, mqtt, g>>

\* Lines 468-469.
ClearBuffer_Flag ==
    /\ At("CB_flag")
    /\ Return(ret)
    /\ esp8266' = [esp8266 EXCEPT !.rxComplete = 0]
    /\ g' = GReturn(g)
    /\ UNCHANGED <<huart, mqtt>>

\* Line 481: strstr begins on the buffer as it is.
ContainsString_Scan ==
    /\ At("CS_entry")
    /\ SetTop([Top EXCEPT !.pc = "CS_scan", !.seen = esp8266.rxBuffer])
    /\ UNCHANGED <<esp8266, huart, ret, mqtt, g>>

\* Line 481: strstr ends, having read each byte as it was when the scan came to it.
ContainsString_Ret ==
    /\ At("CS_scan")
    /\ \E read \in Mixes(Top.seen, esp8266.rxBuffer) :
         /\ Return(IF Contains(read, Top.str) THEN 1 ELSE 0)
         /\ g' = GReturn([g EXCEPT !.out = read])
    /\ UNCHANGED <<esp8266, huart, mqtt>>

App_ClearBuffer ==
    /\ Idle
    /\ stack' = <<ClearBuffer_Frame>>
    /\ g' = GCall([op |-> "ClearBuffer"])
    /\ UNCHANGED <<esp8266, huart, ret, mqtt>>

App_ContainsString ==
    /\ Idle
    /\ \E str \in {"OK", "ERROR"} :
         stack' = <<ContainsString_Frame(str)>>
    /\ g' = GCall([op |-> "ContainsString"])
    /\ UNCHANGED <<esp8266, huart, ret, mqtt>>

RaceChunks == {RespOk, RespError, RespErrorOk}
RxEventRace == \E chunk \in RaceChunks : HAL_UARTEx_RxEventCallback(chunk)

NextRace ==
    \/ RxEventRace
    \/ App_ClearBuffer
    \/ ClearBuffer_Entry
    \/ ClearBuffer_Memset
    \/ ClearBuffer_Length
    \/ ClearBuffer_Flag
    \/ App_ContainsString
    \/ ContainsString_Scan
    \/ ContainsString_Ret

SpecRace == Init /\ [][NextRace]_vars

---------------------------------------------------------------------------
(* The configuration calls on a session *)

NextState ==
    \/ RxEventMqttSub
    \/ HAL_UART_TxCpltCallback
    \/ App_MQTT_SetUserConfig
    \/ App_MQTT_SetConnConfig
    \/ App_MQTT_SetKeepAlive
    \/ App_MQTT_SetLWT
    \/ SendDMA_Entry
    \/ SendDMA_Claim
    \/ SendDMA_Done
    \/ SendCommand_Entry
    \/ SendCommand_Sent
    \/ SendCommand_Poll
    \/ SendCommand_Delay
    \/ MQTT_SetUserConfig_Entry
    \/ MQTT_SetUserConfig_Ret
    \/ MQTT_SetConnConfig_Entry
    \/ MQTT_SetConnConfig_Ret
    \/ MQTT_SetKeepAlive_Entry
    \/ MQTT_SetLWT_Entry

SpecState == InitSession /\ [][NextState]_vars

---------------------------------------------------------------------------
(* The processing tick on a session *)

SpecSessionTick == InitSession /\ [][NextTick]_vars

---------------------------------------------------------------------------
(* The subscription table and topics longer than an entry *)

\* A topic of MQTT_TOPIC_MAX_LEN characters, one more than an entry holds
LongTopic == Repeat("t", MQTT_TOPIC_MAX_LEN)

\* The application subscribes the long topic, while the table is small.
App_MQTT_SubscribeLong ==
    /\ Idle
    /\ mqtt.subscriptionCount <= SessionTopics
    /\ \E topic \in {LongTopic}, qos \in {0} :
         /\ stack' = <<MQTT_Subscribe_Frame(topic, qos)>>
         /\ g' = GCall([op |-> "MQTT_Subscribe", topic |-> topic, qos |-> qos,
                        before |-> mqtt])
    /\ UNCHANGED <<esp8266, huart, ret, mqtt>>

NextTable ==
    \/ RxEventMqttSub
    \/ HAL_UART_TxCpltCallback
    \/ App_MQTT_SubscribeLong
    \/ App_MQTT_Unsubscribe
    \/ App_MQTT_Disconnect
    \/ SendDMA_Entry
    \/ SendDMA_Claim
    \/ SendDMA_Done
    \/ SendCommand_Entry
    \/ SendCommand_Sent
    \/ SendCommand_Poll
    \/ SendCommand_Delay
    \/ MQTT_Subscribe_Entry
    \/ MQTT_Subscribe_Ret
    \/ MQTT_Unsubscribe_Entry
    \/ MQTT_Unsubscribe_Ret
    \/ MQTT_Disconnect_Entry
    \/ MQTT_Disconnect_Ret

SpecTable == InitSession /\ [][NextTable]_vars

---------------------------------------------------------------------------
(* Incoming publications while the application issues commands: the tick is called
   again and again, between the calls *)

\* The application sends a command, as any operation of the driver does.
App_Command ==
    /\ Idle
    /\ stack' = <<SendCommand_Frame("AT\r\n", "OK", ESP8266_DEFAULT_TIMEOUT)>>
    /\ g' = GCall([op |-> "SendCommand", cmd |-> "AT\r\n", expectedResp |-> "OK"])
    /\ UNCHANGED <<esp8266, huart, ret, mqtt>>

IncomingChunks == {SubRecvLine(MsgHello), RespOk}
RxEventIncoming == \E chunk \in IncomingChunks : HAL_UARTEx_RxEventCallback(chunk)

\* A connected session with the message callback registered
InitIncoming ==
    /\ esp8266 = [txBusy |-> 0, rxBuffer |-> "", rxLength |-> 0, rxComplete |-> 0,
                  wifiConnected |-> 1, multiConnMode |-> 0, transparentMode |-> 0,
                  serverStarted |-> 0, initialized |-> 1,
                  ip |-> "", onDataReceived |-> NULL,
                  onWifiConnected |-> NULL, onWifiDisconnected |-> NULL]
    /\ huart = "READY"
    /\ stack = <<>>
    /\ ret = ESP8266_OK
    /\ mqtt = [MQTT_Session(SessionTopics) EXCEPT
                  !.onMessageReceived = "OnMQTTMessageReceived"]
    /\ g = GInit

NextIncoming ==
    \/ RxEventIncoming
    \/ HAL_UART_TxCpltCallback
    \/ App_Command
    \/ MQTT_ProcessData
    \/ SendDMA_Entry
    \/ SendDMA_Claim
    \/ SendDMA_Done
    \/ SendCommand_Entry
    \/ SendCommand_Sent
    \/ SendCommand_Poll
    \/ SendCommand_Delay

\* The thread runs on, and the main loop calls the tick whenever it is between calls.
SpecIncoming ==
    InitIncoming /\ [][NextIncoming]_vars
        /\ WF_vars(ThreadStep) /\ WF_vars(MQTT_ProcessData)

---------------------------------------------------------------------------
(* The deadlines on the 32-bit millisecond tick: ESP8266_WaitForResponse,
   ESP8266_SendDMA and MQTT_Publish's loop with HAL_GetTick() as a counter that wraps.
   A uint32_t is kept as its two 16-bit halves. *)

Half == 65536

U32(n) == [hi |-> (n \div Half) % Half, lo |-> n % Half]

\* a + n in uint32_t, for n < 2^16
Add32(a, n) == [hi |-> (a.hi + ((a.lo + n) \div Half)) % Half, lo |-> (a.lo + n) % Half]

\* Mutant: the difference is taken in a wider type and is not reduced modulo 2^32.
Sub32_NoWrap(a, b) ==
    IF a.hi < b.hi \/ (a.hi = b.hi /\ a.lo < b.lo)
    THEN U32(0)
    ELSE [hi |-> (a.hi - b.hi - (IF a.lo < b.lo THEN 1 ELSE 0)) % Half,
          lo |-> (a.lo - b.lo) % Half]

\* a - b in uint32_t: HAL_GetTick() - start.
Sub32(a, b) ==
    [hi |-> (a.hi - b.hi - (IF a.lo < b.lo THEN 1 ELSE 0)) % Half,
     lo |-> (a.lo - b.lo) % Half]

\* a < b in uint32_t
Less32(a, b) == a.hi < b.hi \/ (a.hi = b.hi /\ a.lo < b.lo)

\* How long before the counter wraps a wait may start
WrapMargin == 3

\* The values of HAL_GetTick() at the start of a wait: 0, and some milliseconds before
\* the wrap
StartTicks ==
    {U32(0)} \cup {[hi |-> Half - 1, lo |-> Half - k] : k \in {WrapMargin, TX_DONE_WAIT}}

\* HAL_Delay(ms) takes ms milliseconds, or longer when the thread is held up.
Delays(ms) == {ms, HAL_Delay(ms)}

\* The frame of a wait: `start` and `now` are the tick at the start and at the last
\* read, `waited` the milliseconds that have passed since the start.
Wait_Frame(pc, start, limit, step) ==
    [pc |-> pc, start |-> start, now |-> start, waited |-> 0, limit |-> limit,
     step |-> step]

\* What the wait leaves in the history when it returns
WaitOut(expired) ==
    [expired |-> expired, start |-> Top.start, now |-> Top.now, limit |-> Top.limit]

\* The frame after HAL_Delay(step)
Delayed(f, d) == [f EXCEPT !.now = Add32(@, d), !.waited = @ + d]

App_WaitForResponse ==
    /\ Idle
    /\ \E start \in StartTicks, timeout \in {TX_BUSY_WAIT, ESP8266_DEFAULT_TIMEOUT} :
         stack' = <<Wait_Frame("WFR_test", start, timeout, POLL_DELAY)>>
    /\ g' = GCall([op |-> "WaitForResponse", response |-> "OK"])
    /\ UNCHANGED <<esp8266, huart, ret, mqtt>>

\* Lines 473-477: one pass of the loop, or its end.
WaitForResponse_Loop ==
    /\ At("WFR_test")
    /\ IF Less32(Sub32(Top.now, Top.start), U32(Top.limit))
       THEN IF ESP8266_ContainsString(g.call.response)
            THEN /\ Return(1)
                 /\ g' = GReturn([g EXCEPT !.elapsed = Top.waited, !.out = WaitOut(FALSE)])
            ELSE /\ \E d \in Delays(POLL_DELAY) : SetTop(Delayed(Top, d))
                 /\ UNCHANGED g
                 /\ UNCHANGED ret
       ELSE /\ Return(0)
            /\ g' = GReturn([g EXCEPT !.elapsed = Top.waited, !.out = WaitOut(TRUE)])
    /\ UNCHANGED <<esp8266, huart, mqtt>>

App_SendDMA_Wait ==
    /\ Idle
    /\ \E start \in StartTicks :
         stack' = <<Wait_Frame("TX_busy", start, TX_BUSY_WAIT, TX_POLL_DELAY)>>
    /\ g' = GCall([op |-> "SendDMA"])
    /\ UNCHANGED <<esp8266, huart, ret, mqtt>>

\* Lines 39-49: one pass of the wait for the slot; when the slot is free it is taken and
\* timeout = HAL_GetTick() is read again (line 51).
SendDMA_BusyWait ==
    /\ At("TX_busy")
    /\ IF esp8266.txBusy # 0
       THEN IF Less32(U32(TX_BUSY_WAIT), Sub32(Top.now, Top.start))
            THEN /\ Return(ESP8266_TIMEOUT)
                 /\ g' = GReturn([g EXCEPT !.elapsed = Top.waited, !.out = WaitOut(TRUE)])
                 /\ UNCHANGED <<esp8266, huart>>
            ELSE /\ \E d \in Delays(TX_POLL_DELAY) : SetTop(Delayed(Top, d))
                 /\ UNCHANGED g
                 /\ UNCHANGED <<esp8266, huart, ret>>
       ELSE \E r \in HAL_UART_Transmit_DMA(huart) :
              IF r # "HAL_OK"
              THEN /\ esp8266' = [esp8266 EXCEPT !.txBusy = 0]
                   /\ Return(ESP8266_ERROR)
                   /\ g' = GReturn([g EXCEPT !.out = WaitOut(FALSE)])
                   /\ UNCHANGED huart
              ELSE /\ esp8266' = [esp8266 EXCEPT !.txBusy = 1]
                   /\ huart' = "BUSY_TX_DMA"
                   /\ SetTop(Wait_Frame("TX_done", Top.now, TX_DONE_WAIT, TX_POLL_DELAY))
                   /\ UNCHANGED <<ret, g>>
    /\ UNCHANGED mqtt

\* Lines 52-59: one pass of the wait for the completion notification.
SendDMA_DoneWait ==
    /\ At("TX_done")
    /\ IF esp8266.txBusy = 0
       THEN /\ Return(ESP8266_OK)
            /\ g' = GReturn([g EXCEPT !.elapsed = Top.waited, !.out = WaitOut(FALSE)])
            /\ UNCHANGED esp8266
       ELSE IF Less32(U32(TX_DONE_WAIT), Sub32(Top.now, Top.start))
            THEN /\ esp8266' = [esp8266 EXCEPT !.txBusy = 0]
                 /\ Return(ESP8266_TIMEOUT)
                 /\ g' = GReturn([g EXCEPT !.elapsed = Top.waited, !.out = WaitOut(TRUE)])
            ELSE /\ \E d \in Delays(TX_POLL_DELAY) : SetTop(Delayed(Top, d))
                 /\ UNCHANGED g
                 /\ UNCHANGED <<esp8266, ret>>
    /\ UNCHANGED <<huart, mqtt>>

\* MQTT_Publish after its payload went out: startTick = HAL_GetTick(), line 603.
App_Publish_Wait ==
    /\ Idle
    /\ mqtt.publishCount < MaxPublish
    /\ \E start \in StartTicks :
         stack' = <<Wait_Frame("PUB_test", start, MQTT_PUBLISH_TIMEOUT, POLL_DELAY)>>
    /\ g' = GCall([op |-> "MQTT_Publish"])
    /\ UNCHANGED <<esp8266, huart, ret, mqtt>>

\* Lines 604-621: one pass of the loop, or its end.
MQTT_Publish_Loop ==
    /\ At("PUB_test")
    /\ IF Less32(Sub32(Top.now, Top.start), U32(MQTT_PUBLISH_TIMEOUT))
       THEN CASE MQTT_Publish_Classify = MQTT_OK ->
                   /\ mqtt' = [mqtt EXCEPT !.publishCount = @ + 1]
                   /\ Return(MQTT_OK)
                   /\ g' = GReturn([g EXCEPT !.elapsed = Top.waited,
                                             !.out = WaitOut(FALSE)])
              [] MQTT_Publish_Classify = MQTT_PUBLISH_FAIL ->
                   /\ Return(MQTT_PUBLISH_FAIL)
                   /\ g' = GReturn([g EXCEPT !.elapsed = Top.waited,
                                             !.out = WaitOut(FALSE)])
                   /\ UNCHANGED mqtt
              [] OTHER ->
                   /\ \E d \in Delays(POLL_DELAY) : SetTop(Delayed(Top, d))
                   /\ UNCHANGED g
                   /\ UNCHANGED <<ret, mqtt>>
       ELSE /\ Return(MQTT_TIMEOUT)
            /\ g' = GReturn([g EXCEPT !.elapsed = Top.waited, !.out = WaitOut(TRUE)])
            /\ UNCHANGED mqtt
    /\ UNCHANGED <<esp8266, huart>>

DeadlineChunks == {RespOk}
RxEventDeadline == \E chunk \in DeadlineChunks : HAL_UARTEx_RxEventCallback(chunk)

\* The three waits, the answer and the completion notification coming or not
NextDeadline ==
    \/ RxEventDeadline
    \/ HAL_UART_TxCpltCallback
    \/ App_WaitForResponse
    \/ App_SendDMA_Wait
    \/ App_Publish_Wait
    \/ WaitForResponse_Loop
    \/ SendDMA_BusyWait
    \/ SendDMA_DoneWait
    \/ MQTT_Publish_Loop

SpecDeadline == Init /\ [][NextDeadline]_vars

---------------------------------------------------------------------------
(* The claims *)

\* The state is the one in which the application's call of `op` returned.
Returned(op) == g.atReturn /\ g.call.op = op

\* ESP8266_SendCommand returned from a call with a non-empty command and an expected token.
ExchangeReturned ==
    /\ Returned("SendCommand")
    /\ g.call.cmd \notin {NULL, ""}
    /\ g.call.expectedResp # NULL

HasErrorMarker(buf) == \E m \in ErrorMarkers : Contains(buf, m)

\* The command of the exchange was handed to the UART and its transmission completed.
Transmitted == g.txAttempts = 1 /\ ~g.dmaFailed

\* C1 (as claimed): when a chunk containing the expected token was delivered before
\* the deadline of ESP8266_SendCommand, the call returns ESP8266_OK and rxBuffer holds
\* that chunk on return.
C1_DeliveredTokenGivesOk ==
    (ExchangeReturned /\ Transmitted /\ g.answer # NoChunk)
        => (ret = ESP8266_OK /\ esp8266.rxBuffer = g.answer)

\* C2: on return of ESP8266_SendCommand with an expected token t, a buffer holding
\* ERROR and not t means the result is ESP8266_ERROR, and when no chunk with t or with
\* an error marker came before the deadline the result is ESP8266_TIMEOUT.
C2_ErrorAndTimeout ==
    ExchangeReturned =>
        /\ (/\ ESP8266_ContainsString("ERROR")
            /\ ~ESP8266_ContainsString(g.call.expectedResp)) => ret = ESP8266_ERROR
        /\ ~g.markerSeen => ret = ESP8266_TIMEOUT

C2_Witness ==
    /\ ExchangeReturned
    /\ Transmitted
    /\ esp8266.rxBuffer = RespError
    /\ ret = ESP8266_ERROR

\* C3 (as claimed): a response holding both the expected token and an error marker
\* yields ESP8266_OK, never ESP8266_ERROR or ESP8266_BUSY.
C3_TokenBeatsErrorMarker ==
    (/\ ExchangeReturned
     /\ Transmitted
     /\ ESP8266_ContainsString(g.call.expectedResp)
     /\ HasErrorMarker(esp8266.rxBuffer)) => ret = ESP8266_OK

\* C4 (as claimed): a response holding "busy" and neither the expected token nor
\* "ERROR" is classified ESP8266_BUSY.
C4_BusyClassified ==
    (/\ ExchangeReturned
     /\ Transmitted
     /\ ESP8266_ContainsString("busy")
     /\ ~ESP8266_ContainsString(g.call.expectedResp)
     /\ ~ESP8266_ContainsString("ERROR")) => ret = ESP8266_BUSY

\* C5 (as claimed): ESP8266_SendCommand with a NULL or an empty command returns
\* ESP8266_INVALID_PARAM, starts no transmission and waits for no response.
C5_EmptyCommandInvalid ==
    (Returned("SendCommand") /\ g.call.cmd \in {NULL, ""})
        => (ret = ESP8266_INVALID_PARAM /\ g.txAttempts = 0 /\ ~g.waited)

\* C6: ESP8266_SendCommand with a command and a NULL expected token hands the command
\* to SendDMA once and returns ESP8266_OK without starting the wait or polling the
\* receive buffer.
C6_FireAndForget ==
    (Returned("SendCommand") /\ g.call.cmd \notin {NULL, ""} /\ g.call.expectedResp = NULL)
        => (ret = ESP8266_OK /\ g.dmaCalls = 1 /\ ~g.waited /\ ~g.polled)

C6_Witness ==
    /\ Returned("SendCommand")
    /\ g.call.cmd = "AT\r\n"
    /\ g.call.expectedResp = NULL
    /\ Transmitted
    /\ ret = ESP8266_OK

\* C7 (as claimed): when a SendDMA inside ESP8266_SendCommand or ESP8266_Send fails to
\* transmit, the operation does not return ESP8266_OK; and no SendDMA attempts the
\* hardware transmit more than once.
C7_TransmitFailureReported ==
    (g.atReturn /\ g.call.op \in {"SendCommand", "Send"})
        => /\ g.dmaFailed => ret # ESP8266_OK
           /\ g.txAttempts <= g.dmaCalls

\* C8 (as claimed): a write to the UART requested while a transmission is in flight
\* starts no second transmission and either waits for the slot or fails; this holds for
\* the escape sequence of ESP8266_ExitTransparent too.
C8_OneTransmitInFlight ==
    /\ (esp8266.txBusy # 0) => huart # "BUSY_TX"
    /\ (Returned("ExitTransparent") /\ g.escapeDropped) => ret # ESP8266_OK

C10_ConnectedOnce ==
    (g.joined /\ Idle)
        => (ret = ESP8266_OK /\ esp8266.wifiConnected = 1 /\ g.connectedCalls = 1)

\* ESP8266_Connect or ESP8266_ConnectEx returned from a call that issued its exchange.
ConnectReturned ==
    /\ g.atReturn
    /\ g.call.op \in {"Connect", "ConnectEx"}
    /\ g.call.host # NULL
    /\ g.call.linkId < ESP8266_MAX_CONNECTIONS

\* C11 (as claimed): on return of ESP8266_Connect / ESP8266_ConnectEx a response with OK
\* or CONNECT gives ESP8266_OK, except that a response reporting the link as already
\* connected (ALREADY ..., then ERROR) gives ESP8266_ALREADY_CONNECTED; any other
\* response gives ESP8266_CONNECT_FAIL; and ConnectEx with linkId >= 5 returns
\* ESP8266_INVALID_PARAM without an exchange.
C11_ConnectStatus ==
    /\ (ConnectReturned /\ Transmitted /\ g.polled) =>
          ret = IF ESP8266_ContainsString("ALREADY") /\ ~ESP8266_ContainsString("OK")
                THEN ESP8266_ALREADY_CONNECTED
                ELSE IF ESP8266_ContainsString("OK") \/ ESP8266_ContainsString("CONNECT")
                THEN ESP8266_OK
                ELSE ESP8266_CONNECT_FAIL
    /\ (/\ Returned("ConnectEx")
        /\ g.call.host # NULL
        /\ g.call.linkId >= ESP8266_MAX_CONNECTIONS)
          => (ret = ESP8266_INVALID_PARAM /\ g.dmaCalls = 0 /\ ~g.waited)

\* C12 (as claimed): for valid parameters ESP8266_Send returns ESP8266_OK only if the
\* '>' prompt was found for AT+CIPSEND, then the payload went out on the UART, then
\* "SEND OK" was found; without the prompt the payload is not handed to the UART; and
\* every other outcome is ESP8266_SEND_FAIL.
C12_TwoPhaseSend ==
    (Returned("Send") /\ g.call.data # NULL /\ g.call.len # 0) =>
        /\ ret \in {ESP8266_OK, ESP8266_SEND_FAIL}
        /\ ret = ESP8266_OK =>
              /\ g.promptSeen
              /\ g.streamed
              /\ g.payloadStatus # ESP8266_ERROR
              /\ ESP8266_ContainsString("SEND OK")
        /\ ~g.promptSeen => (~g.streamed /\ ret = ESP8266_SEND_FAIL)

\* C13 (as claimed): in every reachable state serverStarted = 1 implies
\* multiConnMode # 0.
C13_ServerNeedsMultiConn ==
    esp8266.serverStarted = 1 => esp8266.multiConnMode # 0

\* C14 (as claimed): ESP8266_Send called with valid parameters while transparentMode
\* is set hands the payload to SendDMA and nothing else (no AT+CIPSEND exchange), and
\* waits for no response; and ESP8266_EnterTransparent sets transparentMode only when
\* both of its exchanges succeeded.
C14_TransparentSendIsRaw ==
    /\ (/\ Returned("Send")
        /\ g.call.transparent = 1
        /\ g.call.data # NULL
        /\ g.call.len # 0) => (g.dmaCalls = 1 /\ ~g.waited /\ g.streamed)
    /\ (/\ Returned("EnterTransparent")
        /\ g.call.transparent = 0
        /\ esp8266.transparentMode = 1) => ret = ESP8266_OK

\* The callbacks a call is to have invoked: `name` once with `arg` when registered.
InvokedOnce(cb, name, arg) == g.callbacks = IF cb # NULL THEN <<<<name, arg>>>> ELSE <<>>

\* C15: MQTT_Connect issues one AT+MQTTCONN exchange.  When the exchange succeeds
\* connected is 1, the state is ConnNoSub, onConnected (when registered at the call) has been
\* invoked once and nothing else, and MQTT_OK is returned; when it fails connected is
\* 0, the state is Disconnected, onError(MQTT_CONNECT_FAIL) has been invoked once and
\* nothing else, and MQTT_CONNECT_FAIL is returned.
C15_ConnectOutcome ==
    Returned("MQTT_Connect") =>
        /\ g.dmaCalls = 1
        /\ IF g.exchange = ESP8266_OK
           THEN /\ ret = MQTT_OK
                /\ mqtt.connected = 1
                /\ mqtt.state = MQTT_STATE_CONN_NO_SUB
                /\ InvokedOnce(g.call.onConnected, "onConnected", NULL)
           ELSE /\ ret = MQTT_CONNECT_FAIL
                /\ mqtt.connected = 0
                /\ mqtt.state = MQTT_STATE_DISCONNECTED
                /\ InvokedOnce(g.call.onError, "onError", MQTT_CONNECT_FAIL)

\* A connected session whose reconnect failed, with onError registered.
C15_Witness ==
    /\ Returned("MQTT_Connect")
    /\ g.call.connected = 1
    /\ ret = MQTT_CONNECT_FAIL
    /\ mqtt.connected = 0
    /\ g.callbacks = <<<<"onError", MQTT_CONNECT_FAIL>>>>

\* The call made no command exchange.
NoExchange == g.dmaCalls = 0 /\ ~g.waited
\* The subscription set and the state are as they were when the call was made.
SessionUnchanged ==
    /\ mqtt.subscriptions = g.call.before.subscriptions
    /\ mqtt.subscriptionCount = g.call.before.subscriptionCount
    /\ mqtt.state = g.call.before.state
SubOrUnsubReturned == g.atReturn /\ g.call.op \in {"MQTT_Subscribe", "MQTT_Unsubscribe"}

\* What C16 says of a successful subscribe, a failed subscribe exchange and a full set:
\* success leaves the state ConnWithSub; a failed exchange returns MQTT_SUBSCRIBE_FAIL
\* with set and state unchanged; a new topic when 8 are active returns
\* MQTT_BUFFER_FULL without an exchange.
SubscribeOutcomes ==
    Returned("MQTT_Subscribe") =>
        /\ ret = MQTT_OK => mqtt.state = MQTT_STATE_CONN_WITH_SUB
        /\ g.exchange \notin {NULL, ESP8266_OK} =>
              (ret = MQTT_SUBSCRIBE_FAIL /\ SessionUnchanged)
        /\ ( /\ g.call.before.connected = 1
             /\ g.call.topic # NULL
             /\ SlotsOf(g.call.before.subscriptions, g.call.topic) = {}
             /\ FreeSlots(g.call.before.subscriptions) = {} ) =>
              (ret = MQTT_BUFFER_FULL /\ NoExchange /\ SessionUnchanged)

\* C16 as stated: MQTT_Subscribe and MQTT_Unsubscribe called when connected == 0
\* return MQTT_NOT_CONNECTED, make no exchange and leave the subscription set and the
\* state unchanged; and the outcomes of a subscribe are as above.
C16_Original ==
    /\ (SubOrUnsubReturned /\ g.call.before.connected = 0) =>
          (ret = MQTT_NOT_CONNECTED /\ NoExchange /\ SessionUnchanged)
    /\ SubscribeOutcomes

\* C16 amended: on an initialised client, MQTT_Subscribe and MQTT_Unsubscribe called
\* when connected == 0 return MQTT_NOT_CONNECTED, make no exchange and leave the
\* subscription set and the state unchanged; on a client that is not initialised they
\* return MQTT_NOT_INITIALIZED, likewise without exchange or change; and the outcomes
\* of a subscribe are as above.
C16_SessionRequired ==
    /\ (SubOrUnsubReturned /\ g.call.before.connected = 0) =>
          /\ ret = IF g.call.before.initialized = 0
                   THEN MQTT_NOT_INITIALIZED ELSE MQTT_NOT_CONNECTED
          /\ NoExchange
          /\ SessionUnchanged
    /\ (SubOrUnsubReturned /\ g.call.before.initialized = 0) =>
          (ret = MQTT_NOT_INITIALIZED /\ NoExchange /\ SessionUnchanged)
    /\ SubscribeOutcomes

\* A session that lost its connection and kept subscriptions refuses a subscribe.
C16_Witness ==
    /\ Returned("MQTT_Subscribe")
    /\ g.call.before.initialized = 1
    /\ g.call.before.connected = 0
    /\ g.call.before.subscriptionCount > 0
    /\ g.call.topic # NULL
    /\ ret = MQTT_NOT_CONNECTED

\* A subscribe of a topic the set already holds, on a connected session, whose
\* exchange did not fail.
Resubscribed ==
    /\ Returned("MQTT_Subscribe")
    /\ g.call.before.initialized = 1
    /\ g.call.before.connected = 1
    /\ g.call.topic # NULL
    /\ SlotsOf(g.call.before.subscriptions, g.call.topic) # {}
    /\ ret # MQTT_SUBSCRIBE_FAIL

\* C17: subscribing to a topic already in the set sets that entry's QoS in place and
\* leaves every other entry and the count as they were, whatever the size of the set
\* (1 to 8); and MQTT_GetSubscriptions never reports more than 8 entries.
C17_ResubscribeUpdatesQos ==
    /\ Resubscribed =>
          /\ mqtt.subscriptions =
                [g.call.before.subscriptions EXCEPT
                    ![First(SlotsOf(g.call.before.subscriptions, g.call.topic))].qos =
                        g.call.qos]
          /\ mqtt.subscriptionCount = g.call.before.subscriptionCount
    /\ Returned("MQTT_GetSubscriptions") => g.out.count <= MQTT_MAX_SUBSCRIPTIONS

\* C18: on a connected session, MQTT_Unsubscribe whose exchange is acknowledged
\* returns MQTT_OK; when the topic was not in the set, every entry and
\* subscriptionCount are as before; and the topic is then absent, so that
\* unsubscribing it again leaves the set as the first unsubscribe left it.
C18_IdempotentRemove ==
    (Returned("MQTT_Unsubscribe") /\ g.call.before.connected = 1
        /\ g.call.topic # NULL /\ g.exchange = ESP8266_OK) =>
        /\ ret = MQTT_OK
        /\ SlotsOf(g.call.before.subscriptions, g.call.topic) = {} =>
              /\ mqtt.subscriptions = g.call.before.subscriptions
              /\ mqtt.subscriptionCount = g.call.before.subscriptionCount
        /\ SlotsOf(mqtt.subscriptions, g.call.topic) = {}
        /\ MQTT_RemoveSubscription(mqtt, g.call.topic) = mqtt

\* An acknowledged unsubscribe of a topic that a set with entries does not hold.
C18_Witness ==
    /\ Returned("MQTT_Unsubscribe")
    /\ g.exchange = ESP8266_OK
    /\ g.call.before.subscriptionCount > 0
    /\ SlotsOf(g.call.before.subscriptions, g.call.topic) = {}
    /\ ret = MQTT_OK

PublishOps == {"MQTT_Publish", "MQTT_PublishF", "MQTT_PublishRaw", "MQTT_PublishData"}

\* C19: a publish call (MQTT_Publish, MQTT_PublishF, MQTT_PublishRaw,
\* MQTT_PublishData) made with a topic and data on an initialised client whose
\* connected is 0 issues no exchange and returns MQTT_NOT_CONNECTED.
C19_PublishNeedsSession ==
    ( /\ g.call.op \in PublishOps
      /\ g.call.before.initialized = 1
      /\ g.call.before.connected = 0
      /\ g.call.topic # NULL
      /\ g.call.data # NULL ) =>
        /\ NoExchange
        /\ g.atReturn => ret = MQTT_NOT_CONNECTED

\* C20: MQTT_Publish with a topic and a message.  Without the '>' prompt the result
\* is MQTT_PUBLISH_FAIL and the message is not handed to the transmitter; with it the
\* message is handed over, and a message that could not be transmitted gives
\* MQTT_PUBLISH_FAIL.  Then a poll before the publish timeout that finds
\* "+MQTTPUB:OK" or "OK" gives MQTT_OK, one that finds "ERROR" or "FAIL" without
\* them gives MQTT_PUBLISH_FAIL, and the timeout passing gives MQTT_TIMEOUT; the
\* loop goes on to its delay only after a poll that found none of them.
\* publishCount is one more than before and onPublishComplete (when registered) has
\* been invoked once with the topic exactly when the result is MQTT_OK.
C20_PublishThreeSteps ==
    /\ (g.call.op = "MQTT_Publish" /\ At("MPub_delay") /\ g.polled) =>
          /\ ~ESP8266_ContainsString("OK")
          /\ ~ESP8266_ContainsString("ERROR")
          /\ ~ESP8266_ContainsString("FAIL")
    /\ (Returned("MQTT_Publish") /\ g.call.topic # NULL /\ g.call.data # NULL) =>
        /\ ~g.promptSeen => (ret = MQTT_PUBLISH_FAIL /\ ~g.streamed /\ g.dmaCalls = 1)
        /\ g.promptSeen => (g.exchange = ESP8266_OK /\ g.streamed /\ g.dmaCalls = 2)
        /\ (g.promptSeen /\ g.payloadStatus # ESP8266_OK) => ret = MQTT_PUBLISH_FAIL
        /\ (g.promptSeen /\ g.payloadStatus = ESP8266_OK) =>
              ret = IF g.elapsed >= MQTT_PUBLISH_TIMEOUT THEN MQTT_TIMEOUT
                    ELSE IF ESP8266_ContainsString("+MQTTPUB:OK")
                            \/ ESP8266_ContainsString("OK") THEN MQTT_OK
                    ELSE MQTT_PUBLISH_FAIL
        /\ (g.promptSeen /\ g.payloadStatus = ESP8266_OK /\ ret = MQTT_PUBLISH_FAIL) =>
              (ESP8266_ContainsString("ERROR") \/ ESP8266_ContainsString("FAIL"))
        /\ mqtt.publishCount =
              g.call.before.publishCount + (IF ret = MQTT_OK THEN 1 ELSE 0)
        /\ g.callbacks = IF ret = MQTT_OK /\ g.call.before.onPublishComplete # NULL
                         THEN <<<<"onPublishComplete", g.call.topic>>>> ELSE <<>>

\* A publication acknowledged by a bare OK, with onPublishComplete registered.
C20_Witness ==
    /\ Returned("MQTT_Publish")
    /\ ret = MQTT_OK
    /\ esp8266.rxBuffer = RespOk
    /\ g.promptSeen /\ g.payloadStatus = ESP8266_OK
    /\ mqtt.publishCount = g.call.before.publishCount + 1
    /\ g.callbacks = <<<<"onPublishComplete", g.call.topic>>>>

\* MQTT_ProcessData returned from a tick on an initialised session with a message
\* callback registered.
TickReturned ==
    /\ Returned("MQTT_ProcessData")
    /\ g.call.before.initialized = 1
    /\ g.call.before.onMessageReceived # NULL

\* The invocation the line of message m is to produce
Expected(m) ==
    <<"onMessageReceived",
      [topic |-> m.topic, dataLen |-> m.len, data |-> SubSeq(m.payload, 1, m.len)]>>

LinesPresent == {m \in Messages : Contains(g.call.respBuf, SubRecvLine(m))}

\* C21 (as claimed): every +MQTTSUBRECV line in the buffer when MQTT_ProcessData runs
\* produces exactly one onMessageReceived invocation in that tick, with the line's
\* topic, its length as dataLen and its first <len> payload bytes as data, and
\* receiveCount grows by one for it.
C21_Original ==
    TickReturned =>
        /\ \A m \in LinesPresent :
              Cardinality({i \in DOMAIN g.callbacks : g.callbacks[i] = Expected(m)}) = 1
        /\ mqtt.receiveCount = g.call.before.receiveCount + Cardinality(LinesPresent)

NoSubscriptions ==
    /\ mqtt.subscriptionCount = 0
    /\ \A i \in Slots : mqtt.subscriptions[i].active = 0

\* C22: MQTT_Disconnect on an initialised session ends with connected == 0, state
\* Disconnected, an empty subscription table and one invocation of the registered
\* onDisconnected, whether the AT+MQTTCLEAN exchange succeeded or not; it returns
\* MQTT_OK exactly when the exchange returned ESP8266_OK, and MQTT_ERROR otherwise.
C22_DisconnectClears ==
    (Returned("MQTT_Disconnect") /\ g.call.before.initialized = 1) =>
        /\ mqtt.connected = 0
        /\ mqtt.state = MQTT_STATE_DISCONNECTED
        /\ NoSubscriptions
        /\ mqtt.subscriptions = [i \in Slots |-> MQTT_NoSubscription]
        /\ InvokedOnce(g.call.before.onDisconnected, "onDisconnected", NULL)
        /\ g.cmds = <<CleanCommand>>
        /\ ret = (IF g.exchange = ESP8266_OK THEN MQTT_OK ELSE MQTT_ERROR)

\* A session with subscriptions was disconnected although the exchange failed, and
\* the registered callback ran.
C22_Witness ==
    /\ Returned("MQTT_Disconnect")
    /\ g.call.before.subscriptionCount = SessionTopics
    /\ g.call.before.connected = 1
    /\ g.exchange # ESP8266_OK
    /\ ret = MQTT_ERROR
    /\ g.callbacks = <<<<"onDisconnected", NULL>>>>
    /\ NoSubscriptions

QueryReturned == Returned("MQTT_QueryConnection")

\* C23: MQTT_QueryConnection resynchronises the local view. When its AT+MQTTCONN?
\* exchange succeeded and the response buffer carries +MQTTCONN:<id>,<s>,..., it
\* returns MQTT_OK with state equal to s and connected equal to (s >= 4); when the
\* exchange failed it returns MQTT_ERROR and state and connected are unchanged.
C23_QueryResynchronises ==
    QueryReturned =>
        /\ g.cmds = <<"AT+MQTTCONN?\r\n">>
        /\ g.exchange # ESP8266_OK =>
              /\ ret = MQTT_ERROR
              /\ mqtt.state = g.call.before.state
              /\ mqtt.connected = g.call.before.connected
        /\ g.exchange = ESP8266_OK =>
              /\ ret = MQTT_OK
              /\ \A s \in QueryStates :
                    g.out = RespMqttConn(s) =>
                        /\ mqtt.state = MQTT_States[s + 1]
                        /\ mqtt.connected = (IF s >= 4 THEN 1 ELSE 0)

\* The poll that follows a disconnect: the local view said disconnected, the module
\* answered +MQTTCONN:0,4,..., and the session is Connected again.
C23_Witness ==
    /\ QueryReturned
    /\ g.call.before.connected = 0
    /\ g.call.before.state = MQTT_STATE_DISCONNECTED
    /\ g.exchange = ESP8266_OK
    /\ g.out = RespMqttConn(4)
    /\ mqtt.state = MQTT_STATE_CONNECTED
    /\ mqtt.connected = 1

IsCommand(cmd, name) == SubSeq(cmd, 1, Len(name)) = name

\* The exchanges of a reconnect, in their order: AT+MQTTCLEAN, then AT+MQTTUSERCFG,
\* then AT+MQTTCONN, nothing else, the last one only after the one before.
ReconnectExchanges ==
    /\ Len(g.cmds) \in 1..3
    /\ IsCommand(g.cmds[1], "AT+MQTTCLEAN")
    /\ Len(g.cmds) >= 2 => IsCommand(g.cmds[2], "AT+MQTTUSERCFG")
    /\ Len(g.cmds) = 3 => IsCommand(g.cmds[3], "AT+MQTTCONN=")
    /\ \A i \in DOMAIN g.cmds : ~IsCommand(g.cmds[i], "AT+MQTTSUB")

\* C24 (as claimed): MQTT_Reconnect increments reconnectCount by exactly 1, issues
\* AT+MQTTCLEAN, AT+MQTTUSERCFG and AT+MQTTCONN in this order, never AT+MQTTSUB, and
\* after it returns the local subscription table is empty.
C24_Original ==
    Returned("MQTT_Reconnect") =>
        /\ mqtt.reconnectCount = g.call.before.reconnectCount + 1
        /\ ReconnectExchanges
        /\ NoSubscriptions

\* C26 (as claimed): subscriptions do not outlive the connected session: in every
\* state in which connected == 0 no subscription entry is active and
\* subscriptionCount == 0.
C26_Original ==
    mqtt.connected = 0 =>
        /\ mqtt.subscriptionCount = 0
        /\ ~\E i \in Slots : mqtt.subscriptions[i].active = 1

ConfigOps == {"MQTT_SetUserConfig", "MQTT_SetConnConfig", "MQTT_SetKeepAlive", "MQTT_SetLWT"}

\* A configuration call returned after its exchange had failed.
ConfigExchangeFailed ==
    /\ g.atReturn
    /\ g.call.op \in ConfigOps
    /\ g.cmds # <<>>
    /\ g.exchange # ESP8266_OK

ConfigUnchanged ==
    /\ mqtt.userConfig = g.call.before.userConfig
    /\ mqtt.connConfig = g.call.before.connConfig
    /\ mqtt.state = g.call.before.state

\* C25 (as claimed): configuration is stored only on success. When the exchange of
\* MQTT_SetUserConfig, MQTT_SetConnConfig, MQTT_SetKeepAlive or MQTT_SetLWT fails,
\* the call returns an error and userConfig, connConfig and state are unchanged;
\* MQTT_SetBroker and MQTT_SetBrokerConfig issue no exchange and leave state alone.
C25_Original ==
    /\ ConfigExchangeFailed => (ret = MQTT_ERROR /\ ConfigUnchanged)
    /\ (g.atReturn /\ g.call.op \in {"MQTT_SetBroker", "MQTT_SetBrokerConfig"}) =>
          (g.cmds = <<>> /\ NoExchange /\ mqtt.state = g.call.before.state)

\* ESP8266_ProcessData has run on a completed receive; MQTT_ProcessData has run on an
\* initialised client.
EspTicked == g.call.op = "ProcessData" /\ g.call.before.rxComplete = 1
MqttTicked == Returned("MQTT_ProcessData") /\ g.call.before.initialized = 1

\* How often the MQTT tick invoked the callback `name`
Invocations(name) ==
    Cardinality({i \in DOMAIN g.callbacks : g.callbacks[i][1] = name})

\* C27 (as claimed): in a tick, every marker present in the receive buffer among
\* WIFI CONNECTED, WIFI DISCONNECT, +IPD, +MQTTCONNECTED: and +MQTTDISCONNECTED:
\* invokes its registered callback exactly once and updates the state it stands for
\* (where the buffer does not hold the opposite marker too); an absent marker invokes
\* nothing.
C27_Original ==
    /\ EspTicked =>
          LET b == g.call.before
              con == Contains(b.rxBuffer, "WIFI CONNECTED")
              dis == Contains(b.rxBuffer, "WIFI DISCONNECT")
              ipd == Contains(b.rxBuffer, "+IPD,")
          IN /\ b.onWifiConnected # NULL => (b.onWifiConnected \in g.fired <=> con)
             /\ b.onWifiDisconnected # NULL => (b.onWifiDisconnected \in g.fired <=> dis)
             /\ b.onDataReceived # NULL => (b.onDataReceived \in g.fired <=> ipd)
             /\ (con /\ ~dis) => esp8266.wifiConnected = 1
             /\ (dis /\ ~con) => esp8266.wifiConnected = 0
    /\ MqttTicked =>
          LET b == g.call.before
              con == Contains(g.call.respBuf, "+MQTTCONNECTED:")
              dis == Contains(g.call.respBuf, "+MQTTDISCONNECTED:")
          IN /\ b.onConnected # NULL =>
                   Invocations("onConnected") = (IF con THEN 1 ELSE 0)
             /\ b.onDisconnected # NULL =>
                   Invocations("onDisconnected") = (IF dis THEN 1 ELSE 0)
             /\ (con /\ ~dis) =>
                   (mqtt.connected = 1 /\ mqtt.state = MQTT_STATE_CONNECTED)
             /\ (dis /\ ~con) =>
                   (mqtt.connected = 0 /\ mqtt.state = MQTT_STATE_DISCONNECTED)

PendingPcs == {"SC_sent", "SC_poll", "SC_delay", "MPub_poll", "MPub_delay"}
PendingExchanges == {i \in DOMAIN stack : stack[i].pc \in PendingPcs}

\* C29: commands are strictly serialized: at any time at most one exchange is
\* pending, the commands issued from the callbacks (run by MQTT_Connect and by the
\* processing tick) included.
C29_Serialized == Cardinality(PendingExchanges) <= 1

\* The tick has seen +MQTTCONNECTED and called OnMQTTConnected, whose MQTT_Subscribe
\* has an exchange waiting for its response.
C29_Witness ==
    /\ stack # <<>>
    /\ Top.pc = "SC_poll"
    /\ \E i \in DOMAIN stack : stack[i].pc = "OC_publish"
    /\ \E i \in DOMAIN stack : stack[i].pc = "MPD_sub"
    /\ Cardinality(PendingExchanges) = 1


\* A receive event has come since the handle was set up.
Received == g.lastChunk # NoChunk

\* C30 (as claimed): after a receive event of any size from 1 to ESP8266_RX_BUF_SIZE
\* the buffer's length is at most the capacity less one, so that the terminator is
\* inside the buffer; the event is visible to the caller, and what arrived short of
\* the capacity is in the buffer whole.
C30_Original ==
    Received =>
        /\ esp8266.rxLength <= ESP8266_RX_BUF_SIZE - 1
        /\ esp8266.rxComplete = 1
        /\ Len(g.lastChunk) < ESP8266_RX_BUF_SIZE =>
              /\ esp8266.rxBuffer = g.lastChunk
              /\ esp8266.rxLength = Len(g.lastChunk)


\* A reader is inside its scan of the buffer, or inside ESP8266_ClearBuffer.
ReaderActive ==
    \E i \in DOMAIN stack : stack[i].pc \in {"CS_scan", "CB_memset", "CB_length", "CB_flag"}

\* C31 (as claimed): while a reader scans the receive buffer or ESP8266_ClearBuffer
\* resets it, no receive event (a step that is not the reader's) modifies the
\* buffer, its length or its ready flag.
C31_Original ==
    [][(ReaderActive /\ stack' = stack) =>
          /\ esp8266.rxBuffer' = esp8266.rxBuffer
          /\ esp8266.rxLength' = esp8266.rxLength
          /\ esp8266.rxComplete' = esp8266.rxComplete]_vars


\* The buffer holds a chunk that no poll of a waiting exchange has looked at yet.
UnreadChunk ==
    /\ g.lastChunk # NoChunk
    /\ ~g.polled
    /\ \E i \in DOMAIN stack : stack[i].pc \in {"SC_poll", "SC_delay"}

\* C32 (as claimed): between two consecutive reads of the receive buffer the receive
\* event writes it at most once: a chunk that no poll has inspected yet is not
\* overwritten by a later chunk.
C32_Original ==
    [][(UnreadChunk /\ stack' = stack) => esp8266.rxBuffer' = esp8266.rxBuffer]_vars


\* An exchange is in the delay of its wait, its last poll having looked at the
\* buffer as it is now.
WaitingAfterPoll ==
    /\ g.polled
    /\ \E i \in DOMAIN stack : /\ stack[i].pc = "SC_delay"
                               /\ ~Contains(esp8266.rxBuffer, stack[i].expectedResp)

\* C33 (as claimed): a response with an error marker and without the expected token
\* ends ESP8266_SendCommand at the poll cycle that meets it: no exchange goes on
\* waiting after a poll of such a buffer.
C33_Original == WaitingAfterPoll => ~HasErrorMarker(esp8266.rxBuffer)


\* The states in which the client has a session with the broker
ConnectionStates ==
    {MQTT_STATE_CONNECTED, MQTT_STATE_CONN_NO_SUB, MQTT_STATE_CONN_WITH_SUB}

\* C34 (as claimed): after MQTT_Init the connected flag is 1 exactly when the state is
\* Connected, ConnNoSub or ConnWithSub, and the state is one of the seven declared
\* values.
C34_Original ==
    mqtt.initialized = 1 =>
        /\ (mqtt.connected = 1) <=> (mqtt.state \in ConnectionStates)
        /\ \E i \in DOMAIN MQTT_States : mqtt.state = MQTT_States[i]


ActiveSubscriptions == {i \in Slots : mqtt.subscriptions[i].active = 1}

\* C35 (as claimed): while the session is connected the state is ConnWithSub exactly
\* when at least one subscription is active.
C35_Original ==
    (mqtt.initialized = 1 /\ mqtt.connected = 1) =>
        ((mqtt.state = MQTT_STATE_CONN_WITH_SUB) <=> (ActiveSubscriptions # {}))


\* C36 (as claimed): subscriptionCount is the number of active entries, lies in
\* 0..MQTT_MAX_SUBSCRIPTIONS, and no two active entries hold the same topic.
C36_Original ==
    /\ mqtt.subscriptionCount = Cardinality(ActiveSubscriptions)
    /\ mqtt.subscriptionCount \in 0..MQTT_MAX_SUBSCRIPTIONS
    /\ \A i, j \in ActiveSubscriptions :
         mqtt.subscriptions[i].topic = mqtt.subscriptions[j].topic => i = j


\* A receive event has delivered a +MQTTSUBRECV line that no tick has dispatched.
MessageDelivered ==
    /\ Contains(g.lastChunk, "+MQTTSUBRECV:")
    /\ Invocations("onMessageReceived") = 0
    /\ mqtt.receiveCount < MaxReceive

MessageDispatched == Invocations("onMessageReceived") >= 1

\* C37 (as claimed): every +MQTTSUBRECV line the receive event delivers, one that
\* arrives during a synchronous exchange or just before a command included,
\* eventually leads to an onMessageReceived invocation, the tick being called again
\* and again.
C37_Original == MessageDelivered ~> MessageDispatched


\* The last thing that happened to the session is a tick that dispatched something:
\* no receive event has come since (a receive event forgets the tick's history).
TickDispatched ==
    /\ g.call.op = "MQTT_ProcessData"
    /\ g.call.respBuf = esp8266.rxBuffer
    /\ \/ g.callbacks # <<>>
       \/ g.call.before.receiveCount < mqtt.receiveCount

\* The names of the callbacks a history holds
Dispatched(h) == {h.callbacks[i][1] : i \in DOMAIN h.callbacks}

\* C38 (as claimed): with no new data between two ticks, the second tick invokes no
\* callback again and does not count the same +MQTTSUBRECV line again.
C38_Original ==
    [][(TickDispatched /\ g'.call.op = "MQTT_ProcessData")
          => /\ mqtt'.receiveCount = mqtt.receiveCount
             /\ g' # g => Dispatched(g') \cap Dispatched(g) = {}]_vars


\* C39 (as claimed): txBusy is 1 in every state in which a DMA transmission that
\* ESP8266_SendDMA started is still in flight.
C39_Original == huart = "BUSY_TX_DMA" => esp8266.txBusy = 1


WaitPcs == {"WFR_test", "TX_busy", "TX_done", "PUB_test"}

\* A wait has returned because its time was up.
TimedOut ==
    /\ g.atReturn
    /\ g.call.op \in {"WaitForResponse", "SendDMA", "MQTT_Publish"}
    /\ g.out.expired

\* C40: whatever the tick at the start of a wait, before the wrap of the 32-bit counter
\* or not, ESP8266_WaitForResponse, ESP8266_SendDMA and MQTT_Publish's loop do not time
\* out before their limit has passed, and do not go on waiting beyond the limit by more
\* than the delay of one pass.
C40_Deadlines ==
    /\ TimedOut => g.elapsed >= g.out.limit
    /\ \A i \in DOMAIN stack :
         stack[i].pc \in WaitPcs
            => stack[i].waited <= stack[i].limit + HAL_Delay(stack[i].step)

\* A wait that began before the wrap has timed out after it.
C40_Witness ==
    /\ TimedOut
    /\ Less32(g.out.now, g.out.start)
    /\ g.elapsed >= g.out.limit

=============================================================================
